---- MODULE Spec2Model ----
(***************************************************************************)
(* Model of the paintbrush bootloader's core data structures.              *)
(*                                                                         *)
(* Part 1: shared/rangeset (InclusiveRange, RangeSet).                     *)
(* Part 2: shared/page_table (Entry, PageTable: translate and map).        *)
(* Part 3: bootloader/intel/apic (InterruptCommand, the IPI senders).      *)
(* Part 4: bootloader/main (try_main: launching and watching the cores)    *)
(*         and kernel/main (kernel_main on each started core).             *)
(* Part 5: shared/errchain (ErrorChain, `?` and context).                  *)
(*                                                                         *)
(* Addresses are unsigned integers of a reduced width: U64_MAX stands for  *)
(* u64::MAX and MAX_MEMORY_RANGES for the capacity of all_ranges (130 in   *)
(* the source).  Unchecked `+` on u64 either panics (overflow checks on,   *)
(* the debug/test profile) or wraps (the release profile used by the build *)
(* driver, src/src/main.rs); the profile is the variable overflow_checks.  *)
(*                                                                         *)
(* all_ranges holds the live prefix all_ranges[..length]: no operation     *)
(* reads a slot at or above length.  Slot i of the source is element i+1.  *)
(***************************************************************************)
EXTENDS Integers, Sequences, FiniteSets, TLC

\* u64::MAX, at the model's width
U64_MAX == 6

\* capacity of RangeSet::all_ranges, at the model's scale
MAX_MEMORY_RANGES == 3

\* largest size / align value passed to allocate
MaxSize == 3

MaxAlign == 4

\* entries of one PageTable (512 in the source)
TABLE_ENTRIES == 2

\* pages the PhysMem can still hand out at the start
NumFreePages == 3

\* pages of ordinary memory that leaf entries point to
NumDataPages == 2

\* calls (map, update_perms) made on one page table
MaxMaps == 2

\* levels of the page-table walk
LEVELS == 4

\* the cores the bootloader has room for (36 in the source): core 0 is the BSP
NUM_CPUS == 3

\* pages of the arena given to one core (1 GiB in the source), at the model's scale
ARENA_SIZE == 2

\* pages of the kernel download buffer (2 MiB in the source), at the model's scale
KERNEL_BUFFER_SIZE == 1

\* page-table frames try_main allocates at most: the root of the new page table
\* and the tables the kernel mappings need
MaxFrames == 2

VARIABLES
    all_ranges,       \* RangeSet::all_ranges[..length]
    length,           \* RangeSet::length
    overflow_checks,  \* build profile: TRUE = overflow panics, FALSE = wraps
    panicked,         \* the program has panicked (aborted)
    pc,               \* the caller: "idle", or "returned" from the call in last
    last,             \* the call just made: operation, arguments, result, state before
    mem,              \* physical memory, one Entry per entry-sized word
    free,             \* the pages the PhysMem has not handed out yet
    maps,             \* number of calls made on the page table so far
    pt_last,          \* the map call just made: arguments, result, memory before
    apic_mode,        \* Apic::mode
    icr,              \* the writes made to the Interrupt Command Register, in order
    apic_last,        \* the APIC call just made: arguments and result
    cpus,             \* firmware: the number of processors of the machine
    avail,            \* try_main's available_memory, a RangeSet over page numbers
    bsp,              \* try_main on the BSP: position and locals
    core_args,        \* try_main's array core_args
    alive_cores,      \* try_main's array alive_cores
    ap,               \* kernel_main on each AP: position and locals
    startup_log,      \* the StartupThisAP calls made, with the memory they pointed at
    lapic,            \* the hardware: IA32_APIC_BASE, the APIC registers, the PIC masks
    apic,             \* the Apic object, and the position of the call on it
    hw_log,           \* the hardware operations of the call on the Apic, in order
    chain_result,     \* the ErrorChainResult on its way up the call stack
    chain_last        \* the step just made on it: err!, `?` or context, and where

vars == <<all_ranges, length, overflow_checks, panicked, pc, last,
          mem, free, maps, pt_last, apic_mode, icr, apic_last,
          cpus, avail, bsp, core_args, alive_cores, ap, startup_log,
          lapic, apic, hw_log, chain_result, chain_last>>

\* the variables of the error on its way up
errvars == <<chain_result, chain_last>>

\* the variables of the APIC
apicvars == <<apic_mode, icr, apic_last>>

\* the variables of the APIC's hardware and of the Apic object
lapicvars == <<lapic, apic, hw_log>>

\* the variables of the devices, which the RangeSet and the page table leave alone
hwvars == <<apicvars, lapicvars, cpus, avail, bsp, core_args, alive_cores, ap,
            startup_log, errvars>>

\* the variables of the boot: the BSP, the APs and the memory they share
bootvars == <<cpus, avail, bsp, core_args, alive_cores, ap, startup_log>>

\* the variables of the page table and its PhysMem
ptvars == <<mem, free, maps, pt_last>>

----------------------------------------------------------------------------
(* InclusiveRange *)

Addr == 0..U64_MAX

Min(a, b) == IF a <= b THEN a ELSE b

Max(a, b) == IF a >= b THEN a ELSE b

InclusiveRange(s, e) == [start |-> s, end |-> e]

is_valid(r) == r.start <= r.end

\* u64 `x + 1` in the release profile
WrapAdd(x, y) == (x + y) % (U64_MAX + 1)

saturating_add(x, y) == Min(x + y, U64_MAX)

saturating_sub(x, y) == Max(x - y, 0)

\* InclusiveRange::contains: "Err" | "True" | "False"
contains(self, rhs) ==
    IF ~is_valid(self) \/ ~is_valid(rhs) THEN "Err"
    ELSE IF self.start <= rhs.start /\ self.end >= rhs.end THEN "True"
    ELSE "False"

\* the comparison of InclusiveRange::overlaps with wrapping `+ 1`
OverlapsWrapping(self, rhs) ==
    self.start <= WrapAdd(rhs.end, 1) /\ rhs.start <= WrapAdd(self.end, 1)

\* whether evaluating the comparison overflows: rhs.end + 1 is evaluated first,
\* self.end + 1 only when the left operand of && is true
OverlapsOverflows(self, rhs) ==
    \/ rhs.end = U64_MAX
    \/ (self.start <= rhs.end + 1 /\ self.end = U64_MAX)

\* InclusiveRange::overlaps: "Err" | "Panic" | "Some" | "None"
overlaps(self, rhs, oc) ==
    IF ~is_valid(self) \/ ~is_valid(rhs) THEN "Err"
    ELSE IF oc /\ OverlapsOverflows(self, rhs) THEN "Panic"
    ELSE IF OverlapsWrapping(self, rhs) THEN "Some"
    ELSE "None"

----------------------------------------------------------------------------
(* RangeSet: values are records [all_ranges, length] *)

RangeSet_new == [all_ranges |-> << >>, length |-> 0]

Result(rs, res) == [rs |-> rs, res |-> res, addr |-> 0]

ResultAddr(rs, res, addr) == [rs |-> rs, res |-> res, addr |-> addr]

\* RangeSet::delete: ensure!(index < self.len()), then swap slot index with the
\* last live slot, length -= 1
delete(rs, index) ==
    IF ~(index <= rs.length) THEN Result(rs, "DeleteOutOfBounds")
    ELSE Result([all_ranges |-> [i \in 1..(rs.length - 1) |->
                                    IF i = index THEN rs.all_ranges[rs.length]
                                    ELSE rs.all_ranges[i]],
                 length |-> rs.length - 1],
                "Ok")

\* all_ranges[len()] = range; length += 1
push(rs, range) ==
    [all_ranges |-> Append(rs.all_ranges, range), length |-> rs.length + 1]

RECURSIVE InsertScan(_, _, _, _)
\* the 'merging loop of RangeSet::insert, at slot index
InsertScan(rs, range, index, oc) ==
    IF index > rs.length THEN Result(push(rs, range), "Ok")
    ELSE LET curr_range == rs.all_ranges[index]
             o == overlaps(curr_range, range, oc)
         IN  CASE o = "Panic" -> Result(rs, "Panic")
               [] o = "Err"   -> Result(rs, "InvalidRange")
               [] o = "None"  -> InsertScan(rs, range, index + 1, oc)
               [] OTHER       ->
                    LET d == delete(rs, index)
                    IN  IF d.res # "Ok" THEN d
                        ELSE InsertScan(d.rs,
                                        InclusiveRange(Min(range.start, curr_range.start),
                                                       Max(range.end, curr_range.end)),
                                        1, oc)

\* mutant of insert: the capacity is not checked
insert_unchecked_capacity(rs, range, oc) ==
    IF ~is_valid(range) THEN Result(rs, "InvalidRange")
    ELSE InsertScan(rs, range, 1, oc)

\* RangeSet::insert
insert(rs, range, oc) ==
    IF ~is_valid(range) THEN Result(rs, "InvalidRange")
    ELSE IF ~(rs.length < MAX_MEMORY_RANGES) THEN Result(rs, "Full")
    ELSE InsertScan(rs, range, 1, oc)

\* mutant of SplitRange: the current range is shrunk before the capacity is
\* checked
SplitRangeShrinkFirst(rs, range, index) ==
    IF ~(rs.length < MAX_MEMORY_RANGES)
    THEN Result([rs EXCEPT !.all_ranges[index].end = saturating_sub(range.start, 1)],
                "Full")
    ELSE Result(push([rs EXCEPT !.all_ranges[index].end =
                                    saturating_sub(range.start, 1)],
                     InclusiveRange(saturating_add(range.end, 1),
                                    rs.all_ranges[index].end)),
                "Ok")

\* the last branch of RangeSet::remove, range strictly inside slot index:
\* ensure!(self.len() < MAX_MEMORY_RANGES), shrink the slot to the left part,
\* store the right part in a new slot
SplitRange(rs, range, index) ==
    IF ~(rs.length < MAX_MEMORY_RANGES) THEN Result(rs, "Full")
    ELSE Result(push([rs EXCEPT !.all_ranges[index].end =
                                    saturating_sub(range.start, 1)],
                     InclusiveRange(saturating_add(range.end, 1),
                                    rs.all_ranges[index].end)),
                "Ok")

RECURSIVE RemoveScan(_, _, _, _)
\* the 'removing loop of RangeSet::remove, at slot index
RemoveScan(rs, range, index, oc) ==
    IF index > rs.length THEN Result(rs, "Ok")
    ELSE LET curr_range == rs.all_ranges[index]
             o == overlaps(range, curr_range, oc)
         IN  CASE o = "Panic" -> Result(rs, "Panic")
               [] o = "Err"   -> Result(rs, "InvalidRange")
               [] o = "None"  -> RemoveScan(rs, range, index + 1, oc)
               [] OTHER       ->
                    IF contains(range, curr_range) = "Err"
                    THEN Result(rs, "InvalidRange")
                    ELSE IF contains(range, curr_range) = "True"
                    THEN LET d == delete(rs, index)
                         IN  IF d.res # "Ok" THEN d
                             ELSE RemoveScan(d.rs, range, 1, oc)
                    ELSE IF range.start <= curr_range.start
                    THEN RemoveScan(
                           [rs EXCEPT !.all_ranges[index].start =
                                          saturating_add(range.end, 1)],
                           range, index + 1, oc)
                    ELSE IF range.end >= curr_range.end
                    THEN RemoveScan(
                           [rs EXCEPT !.all_ranges[index].end =
                                          saturating_sub(range.start, 1)],
                           range, index + 1, oc)
                    ELSE LET sp == SplitRange(rs, range, index)
                         IN  IF sp.res # "Ok" THEN sp
                             ELSE RemoveScan(sp.rs, range, 1, oc)

\* RangeSet::remove
remove(rs, range, oc) ==
    IF ~is_valid(range) THEN Result(rs, "InvalidRange")
    ELSE RemoveScan(rs, range, 1, oc)

\* align.count_ones() == 1
IsPowerOfTwo(align) == \E k \in 0..U64_MAX : align = 2^k

\* usize::MAX as u64 on the 64-bit targets the build driver builds for
USIZE_MAX == U64_MAX

\* (align - (range.start & mask)) & mask, mask = align - 1, align a power of two
Padding(start, align) == (align - (start % align)) % align

\* the end of RangeSet::allocate: remove the chosen block, return its address
AllocateTake(rs, return_addr, first, end, oc) ==
    LET r == remove(rs, InclusiveRange(first, end), oc)
    IN  IF r.res = "Ok" THEN ResultAddr(r.rs, "Ok", return_addr)
        ELSE Result(r.rs, r.res)

\* mutant of FoundBetter: a later range with equal padding replaces the choice
FoundBetterOrEqual(allocation, best_padding, padding) ==
    allocation = << >> \/ best_padding >= padding

\* "Found a better segment": allocation.is_none() || best_padding > padding
FoundBetter(allocation, best_padding, padding) ==
    allocation = << >> \/ best_padding > padding

RECURSIVE AllocateScan(_, _, _, _, _, _, _)
\* the for loop of RangeSet::allocate at slot index; allocation is << >> (None)
\* or <<aligned_start, end>>
AllocateScan(rs, size, align, index, best_padding, allocation, oc) ==
    IF index > rs.length
    THEN IF allocation = << >> THEN Result(rs, "Panic")   \* unreachable!()
         ELSE AllocateTake(rs, allocation[1], allocation[1], allocation[2], oc)
    ELSE LET range   == rs.all_ranges[index]
             padding == Padding(range.start, align)
             aligned_start == range.start + padding
             end     == aligned_start + (size - 1)
         IN  IF aligned_start > U64_MAX \/ end > U64_MAX
             THEN Result(rs, "AddOverflow")
             ELSE IF range.start > USIZE_MAX \/ end > USIZE_MAX
             THEN AllocateScan(rs, size, align, index + 1, best_padding, allocation, oc)
             ELSE IF end > range.end
             THEN AllocateScan(rs, size, align, index + 1, best_padding, allocation, oc)
             ELSE IF FoundBetter(allocation, best_padding, padding)
             THEN IF padding = 0
                  THEN AllocateTake(rs, aligned_start, range.start, end, oc)
                  ELSE AllocateScan(rs, size, align, index + 1, padding,
                                    <<aligned_start, end>>, oc)
             ELSE AllocateScan(rs, size, align, index + 1, best_padding, allocation, oc)

\* RangeSet::allocate
allocate(rs, size, align, oc) ==
    IF ~(size > 0) THEN Result(rs, "ZeroSizedAllocation")
    ELSE IF ~IsPowerOfTwo(align) THEN Result(rs, "UnalignedAllocation")
    ELSE AllocateScan(rs, size, align, 1, U64_MAX, << >>, oc)

RECURSIVE SizeScan(_, _, _, _)
\* the loop of RangeSet::size: [res, val]
SizeScan(rs, index, acc, oc) ==
    IF index > rs.length THEN [res |-> "Ok", val |-> acc]
    ELSE LET range == rs.all_ranges[index]
         IN  IF ~is_valid(range) THEN [res |-> "InvalidRange", val |-> 0]
             ELSE IF (range.end - range.start) + 1 > U64_MAX
             THEN [res |-> "AddOverflow", val |-> 0]
             ELSE IF acc + (range.end - range.start) + 1 > U64_MAX
             THEN IF oc THEN [res |-> "Panic", val |-> 0]
                  ELSE SizeScan(rs, index + 1,
                                WrapAdd(acc, (range.end - range.start) + 1), oc)
             ELSE SizeScan(rs, index + 1, acc + (range.end - range.start) + 1, oc)

\* RangeSet::size
size(rs, oc) == SizeScan(rs, 1, 0, oc)

----------------------------------------------------------------------------
(* Part 2: shared/page_table                                                *)
(*                                                                          *)
(* Addresses count entry-sized words (8 bytes in the source), so that a     *)
(* 4 KiB page, which holds exactly one PageTable, is TABLE_ENTRIES words.   *)
(* An Entry is kept as its decoded fields; the address field is page        *)
(* aligned by construction, as Entry::address masks the low 12 bits.  The   *)
(* caching, accessed, dirty, global, software and protection-key bits are   *)
(* carried by no operation modelled here and are left out.                  *)

PAGE_WORDS == TABLE_ENTRIES

PageSizes == {"Size512G", "Size2M", "Size4K"}

\* the span a page of each size is given in the source: 2^39, 2^21, 2^12 bytes
SizeOf(page_sz) ==
    CASE page_sz = "Size4K"   -> PAGE_WORDS
      [] page_sz = "Size2M"   -> PAGE_WORDS * TABLE_ENTRIES
      [] page_sz = "Size512G" -> PAGE_WORDS * TABLE_ENTRIES^3

VirtAddrs == 0..(PAGE_WORDS * TABLE_ENTRIES^LEVELS - 1)

\* physical memory: the root table, the PhysMem's pages, the data pages
PhysAddrs == 0..((1 + NumFreePages + NumDataPages) * PAGE_WORDS - 1)

\* PageTable::start_address of the table under test
RootTable == 0

FreeInit == [i \in 1..NumFreePages |-> i * PAGE_WORDS]

DataPages == {(NumFreePages + i) * PAGE_WORDS : i \in 1..NumDataPages}

\* Option::None of an Option<PhysAddr>
None == -1

\* Entry::new(): Entry(0)
Entry_new ==
    [present |-> FALSE, writable |-> FALSE, user_permitted |-> FALSE,
     page_size |-> FALSE, execute_disable |-> FALSE, address |-> 0]

MemInit == [a \in PhysAddrs |-> Entry_new]

\* PhysAddr::is_page_aligned
is_page_aligned(addr) == addr % PAGE_WORDS = 0

\* VirtAddr::table_indexes: (virt >> {39, 30, 21, 12}) & 0x1ff
table_indexes(virt_addr) ==
    [level \in 1..LEVELS |->
        (virt_addr \div (PAGE_WORDS * TABLE_ENTRIES^(LEVELS - level))) % TABLE_ENTRIES]

\* PageTable::entry_address
entry_address(table_start, index) == table_start + index

Translated_new(virt_addr, phys_addr, page_sz, entries, perms) ==
    [res |-> "Ok", virt_addr |-> virt_addr, phys_addr |-> phys_addr, size |-> page_sz,
     entries |-> entries, perms |-> perms]

\* mutant of new_not_present: only the root slot is reported
new_not_present_root_only(virt_addr, entries) ==
    [res |-> "Ok", virt_addr |-> virt_addr, phys_addr |-> None, size |-> "None",
     entries |-> [level \in 1..LEVELS |-> IF level = 1 THEN entries[1] ELSE None],
     perms |-> [readable |-> FALSE, writable |-> FALSE, executable |-> FALSE]]

new_not_present(virt_addr, entries) ==
    [res |-> "Ok", virt_addr |-> virt_addr, phys_addr |-> None, size |-> "None",
     entries |-> entries,
     perms |-> [readable |-> FALSE, writable |-> FALSE, executable |-> FALSE]]

\* panic!("Page size on level 0?!") / panic!("Large page with 4k page?!")
TranslatePanic(virt_addr, entries) ==
    [res |-> "Panic", virt_addr |-> virt_addr, phys_addr |-> None, size |-> "None",
     entries |-> entries,
     perms |-> [readable |-> FALSE, writable |-> FALSE, executable |-> FALSE]]

RECURSIVE TranslateWalk(_, _, _, _, _, _, _)
\* the loop of _translate at `level` (0-based), and the code after it
TranslateWalk(m, virt_addr, level, table_address, entries, perms, address) ==
    IF level = LEVELS
    THEN Translated_new(virt_addr, address + (virt_addr % SizeOf("Size4K")), "Size4K",
                        entries, perms)
    ELSE LET index    == table_indexes(virt_addr)[level + 1]
             slot     == entry_address(table_address, index)
             entry    == m[slot]
             entries2 == [entries EXCEPT ![level + 1] = slot]
             perms2   == [perms EXCEPT !.writable = entry.writable,
                                       !.executable = ~entry.execute_disable]
         IN  IF ~entry.present THEN new_not_present(virt_addr, entries2)
             ELSE IF entry.page_size
             THEN CASE level = 1 ->
                         Translated_new(virt_addr,
                                        entry.address + (virt_addr % SizeOf("Size512G")),
                                        "Size512G", entries2, perms2)
                    [] level = 2 ->
                         Translated_new(virt_addr,
                                        entry.address + (virt_addr % SizeOf("Size2M")),
                                        "Size2M", entries2, perms2)
                    [] OTHER -> TranslatePanic(virt_addr, entries2)
             ELSE TranslateWalk(m, virt_addr, level + 1, entry.address, entries2,
                                perms2, entry.address)

\* PageTable::_translate on the table at RootTable
translate(m, virt_addr) ==
    TranslateWalk(m, virt_addr, 0, RootTable, [level \in 1..LEVELS |-> None],
                  [readable |-> TRUE, writable |-> FALSE, executable |-> FALSE], None)

\* mutant of max_depth: every page size walks all four levels
max_depth_always_4k(entry_size) == 4

max_depth(entry_size) ==
    CASE entry_size = "Size512G" -> 2
      [] entry_size = "Size2M"   -> 3
      [] entry_size = "Size4K"   -> 4

\* the entry _map_raw writes for a newly allocated intermediate table
IntermediateEntry(new_page_table_addr) ==
    [present |-> TRUE, writable |-> TRUE, user_permitted |-> TRUE,
     page_size |-> FALSE, execute_disable |-> FALSE, address |-> new_page_table_addr]

\* mutant of alloc_page_zeroed: the zeroing runs over two pages, the page
\* handed out and the one below it
alloc_page_zeroed_two_pages(m, fr) ==
    IF fr = << >>
    THEN [res |-> "Panic", page |-> None, mem |-> m, free |-> fr]
    ELSE [res |-> "Ok", page |-> Head(fr), free |-> Tail(fr),
          mem |-> [a \in PhysAddrs |->
                     IF a \div PAGE_WORDS \in {Head(fr) \div PAGE_WORDS,
                                               Head(fr) \div PAGE_WORDS - 1}
                     THEN Entry_new ELSE m[a]]]

\* PhysMem::alloc_page_zeroed over RangeSet::alloc_phys, which panics
\* (`.expect("Failed to alloc_phys")`) when no page is left
alloc_page_zeroed(m, fr) ==
    IF fr = << >>
    THEN [res |-> "Panic", page |-> None, mem |-> m, free |-> fr]
    ELSE [res |-> "Ok", page |-> Head(fr), free |-> Tail(fr),
          mem |-> [a \in PhysAddrs |->
                     IF a \div PAGE_WORDS = Head(fr) \div PAGE_WORDS
                     THEN Entry_new ELSE m[a]]]

RECURSIVE MapWalk(_, _, _, _, _, _, _)
\* the loop of _map_raw at curr_depth, and the final write after it
MapWalk(m, fr, entry, virt_addr, entries, curr_depth, maxd) ==
    IF curr_depth >= maxd
    THEN LET entry_addr == entries[maxd]
         IN  [res |-> "Ok", free |-> fr,
              mem |-> IF entry_addr # None THEN [m EXCEPT ![entry_addr] = entry] ELSE m]
    ELSE IF entries[curr_depth + 1] # None
    THEN MapWalk(m, fr, entry, virt_addr, entries, curr_depth + 1, maxd)
    ELSE LET a == alloc_page_zeroed(m, fr)
         IN  IF a.res # "Ok" THEN [res |-> a.res, free |-> fr, mem |-> m]
             ELSE LET next_table_index   == table_indexes(virt_addr)[curr_depth + 1]
                      next_entry_address == entry_address(a.page, next_table_index)
                      prev               == entries[curr_depth]
                  IN  IF prev # None
                      THEN MapWalk([a.mem EXCEPT ![prev] = IntermediateEntry(a.page)],
                                   a.free, entry, virt_addr,
                                   [entries EXCEPT ![curr_depth + 1] = next_entry_address],
                                   curr_depth + 1, maxd)
                      ELSE MapWalk(a.mem, a.free, entry, virt_addr, entries,
                                   curr_depth + 1, maxd)

\* Entry::address: the bits 12..51 of the entry; the low 12 bits are masked off
Entry_address(entry) == entry.address - (entry.address % PAGE_WORDS)

\* EntryBuilder::default().address(address).page_size(page_size).present(true)
\*     .user_permitted(true).writable(writable).execute_disable(execute_disable)
\*     .finish(): [res, entry].  address() asserts that the address is page aligned
EntryBuilder_finish(address, page_size, writable, execute_disable) ==
    IF ~is_page_aligned(address) THEN [res |-> "Panic", entry |-> Entry_new]
    ELSE [res |-> "Ok",
          entry |-> [present |-> TRUE, writable |-> writable, user_permitted |-> TRUE,
                     page_size |-> (page_size # "Size4K"),
                     execute_disable |-> execute_disable, address |-> address]]

\* mutant of map_raw: the existing translation is not looked at
map_raw_no_mapped_check(m, fr, entry, virt_addr, entry_size) ==
    MapWalk(m, fr, entry, virt_addr, translate(m, virt_addr).entries, 1,
            max_depth(entry_size))

\* PageTable::_map_raw: [res, mem, free]
map_raw(m, fr, entry, virt_addr, entry_size) ==
    IF ~is_page_aligned(Entry_address(entry))
    THEN [res |-> "CannotMapNonPageAligned", free |-> fr, mem |-> m]
    ELSE LET translation == translate(m, virt_addr)
         IN  IF translation.res = "Panic" THEN [res |-> "Panic", free |-> fr, mem |-> m]
             ELSE IF translation.phys_addr # None
             THEN [res |-> "VirtAddrAlreadyMapped", free |-> fr, mem |-> m]
             ELSE MapWalk(m, fr, entry, virt_addr, translation.entries, 1,
                          max_depth(entry_size))

\* Entry::set_writable
set_writable(entry) == [entry EXCEPT !.writable = TRUE]

\* Entry::set_executable
set_executable(entry) == [entry EXCEPT !.execute_disable = FALSE]

\* the value of curr_entry at the end of one iteration of _update_perms' loop
UpdatedCopy(m, entry_addr, perms) ==
    LET curr_entry == m[entry_addr]
        w == IF perms.writable THEN set_writable(curr_entry) ELSE curr_entry
    IN  IF perms.executable THEN set_executable(w) ELSE w

\* PageTable::_update_perms: [res, mem].  curr_entry is a local copy of the
\* entry word (UpdatedCopy); the loop body ends without storing it, so memory
\* is what it was
update_perms(m, virt_addr, perms) ==
    LET translation == translate(m, virt_addr)
    IN  IF translation.res = "Panic" THEN [res |-> "Panic", mem |-> m]
        ELSE [res |-> "Ok", mem |-> m]

\* the permissions a caller asks update_perms for
PermsInputs == [readable : {TRUE}, writable : BOOLEAN, executable : BOOLEAN]

\* the leaf entries a caller passes to map
EntryInputs ==
    [present : BOOLEAN, writable : BOOLEAN, user_permitted : {TRUE},
     page_size : BOOLEAN, execute_disable : BOOLEAN, address : DataPages]

\* the addresses a caller maps: every page by its first word, and the last
\* word of the address space as an unaligned one
MapAddrs ==
    {v \in VirtAddrs : v % PAGE_WORDS = 0} \cup {PAGE_WORDS * TABLE_ENTRIES^LEVELS - 1}

\* the physical addresses a caller builds a leaf entry for: the data pages,
\* and a word inside the first of them
BuildAddrs == DataPages \cup {(NumFreePages + 1) * PAGE_WORDS + 1}

\* pt_last: the map call (entry, virt_addr, size), its result and the memory before;
\* phys is the address the entry was built for
NoMap == [op |-> "none", entry |-> Entry_new, virt_addr |-> 0, size |-> "Size4K",
          res |-> "Ok", pre |-> MemInit, pre_free |-> FreeInit,
          perms |-> [readable |-> FALSE, writable |-> FALSE, executable |-> FALSE],
          phys |-> 0]

----------------------------------------------------------------------------
(* Part 3: bootloader/intel/apic                                            *)
(*                                                                          *)
(* A u64 is held as its two u32 halves [hi, lo]: value = hi << 32 | lo.     *)

\* the discriminants of the #[repr] enums
DeliveryModes == {"Fixed", "LowestPriority", "SystemManagementInterrupt",
                  "NonMaskableInterrupt", "Init", "StartUp"}

DeliveryMode_as_u64(delivery_mode) ==
    CASE delivery_mode = "Fixed"                     -> 0
      [] delivery_mode = "LowestPriority"            -> 1
      [] delivery_mode = "SystemManagementInterrupt" -> 2
      [] delivery_mode = "NonMaskableInterrupt"      -> 4
      [] delivery_mode = "Init"                      -> 5
      [] delivery_mode = "StartUp"                   -> 6

DestinationMode_as_u64(destination_mode) ==
    IF destination_mode = "Physical" THEN 0 ELSE 1

DeliveryStatus_as_u64(delivery_status) ==
    IF delivery_status = "Idle" THEN 0 ELSE 1

Level_as_u64(level) == IF level = "DeAssert" THEN 0 ELSE 1

TriggerMode_as_u64(trigger_mode) == IF trigger_mode = "Edge" THEN 0 ELSE 1

DestinationShorthands == {"None", "Self_", "AllIncludingSelf", "AllExcludingSelf"}

DestinationShorthand_as_u64(destination_shorthand) ==
    CASE destination_shorthand = "None"             -> 0
      [] destination_shorthand = "Self_"            -> 1
      [] destination_shorthand = "AllIncludingSelf" -> 2
      [] destination_shorthand = "AllExcludingSelf" -> 3

Modes == {"Apic", "X2Apic"}

\* InterruptCommand::default()
InterruptCommand_default ==
    [delivery_mode |-> "Fixed", destination_mode |-> "Physical",
     delivery_status |-> "Idle", level |-> "DeAssert", trigger_mode |-> "Edge",
     destination_shorthand |-> "None", vector |-> None, apic_id |-> None]

RECURSIVE BitOr(_, _)
\* a | b on unsigned integers
BitOr(a, b) ==
    IF a = 0 THEN b
    ELSE IF b = 0 THEN a
    ELSE (IF a % 2 = 1 \/ b % 2 = 1 THEN 1 ELSE 0) + 2 * BitOr(a \div 2, b \div 2)

\* Option::unwrap_or(0)
unwrap_or_0(opt) == IF opt = None THEN 0 ELSE opt

\* the value raw builds once its assertions have passed: the destination in
\* the high half, the other fields and the vector in the low half
RawValue(cmd, dest_apic_id) ==
    [hi |-> dest_apic_id,
     lo |-> BitOr(DestinationShorthand_as_u64(cmd.destination_shorthand) * 2^18,
            BitOr(TriggerMode_as_u64(cmd.trigger_mode) * 2^15,
            BitOr(Level_as_u64(cmd.level) * 2^14,
            BitOr(DeliveryStatus_as_u64(cmd.delivery_status) * 2^12,
            BitOr(DestinationMode_as_u64(cmd.destination_mode) * 2^11,
            BitOr(DeliveryMode_as_u64(cmd.delivery_mode) * 2^8,
                  unwrap_or_0(cmd.vector)))))))]

NoValue == [hi |-> 0, lo |-> 0]

\* InterruptCommand::raw: [res, val].  The three assert! are kept as written:
\* the second and the third each require the shorthand to be the one they name
raw(cmd, mode) ==
    IF ~(cmd.vector # None \/ cmd.delivery_mode = "NonMaskableInterrupt"
                           \/ cmd.delivery_mode = "Init")
    THEN [res |-> "Panic", val |-> NoValue]
    ELSE IF ~(cmd.destination_shorthand = "AllIncludingSelf" /\ cmd.apic_id = None)
    THEN [res |-> "Panic", val |-> NoValue]
    ELSE IF ~(cmd.destination_shorthand = "AllExcludingSelf" /\ cmd.apic_id = None)
    THEN [res |-> "Panic", val |-> NoValue]
    ELSE LET apic_id == unwrap_or_0(cmd.apic_id)
         IN  IF mode = "Apic"
             THEN IF apic_id <= 15
                  THEN [res |-> "Ok", val |-> RawValue(cmd, apic_id * 2^24)]
                  ELSE [res |-> "Panic", val |-> NoValue]
             ELSE [res |-> "Ok", val |-> RawValue(cmd, apic_id)]

\* Apic::get_register
get_register(reg, mode) == IF mode = "X2Apic" THEN BitOr(2048, reg \div 16) ELSE reg

\* Register::InterruptCommand
Register_InterruptCommand == 768

\* Apic::write_command_register: [res, icr].  One element of icr is one
\* command: the register index or MSR used and the 64-bit value
write_command_register(writes, mode, cmd) ==
    LET val == raw(cmd, mode)
    IN  IF val.res = "Panic" THEN [res |-> "Panic", icr |-> writes]
        ELSE [res |-> "Ok",
              icr |-> Append(writes, [reg |-> get_register(Register_InterruptCommand, mode),
                                      val |-> val.val])]

\* Apic::inter_process_interrupt
inter_process_interrupt(writes, mode, interrupt) ==
    IF interrupt.apic_id = None THEN [res |-> "IpiWithoutApicId", icr |-> writes]
    ELSE write_command_register(writes, mode, interrupt)

\* Apic::init_id
init_id(writes, mode, apic_id) ==
    inter_process_interrupt(writes, mode,
        [InterruptCommand_default EXCEPT !.delivery_mode = "Init", !.level = "Assert",
                                         !.apic_id = apic_id, !.vector = 0])

\* entry_point & 0xfff0_0fff == 0
EntryPointValid(entry_point) == entry_point % 2^12 = 0 /\ entry_point \div 2^20 = 0

\* Apic::sipi_id
sipi_id(writes, mode, apic_id, entry_point) ==
    IF ~EntryPointValid(entry_point) THEN [res |-> "Panic", icr |-> writes]
    ELSE LET vector == (entry_point \div 2^12) % 2^8
         IN  inter_process_interrupt(writes, mode,
                 [InterruptCommand_default EXCEPT !.delivery_mode = "StartUp",
                                                  !.level = "Assert",
                                                  !.apic_id = apic_id,
                                                  !.vector = vector])

\* Apic::init_sipi_sipi_id
init_sipi_sipi_id(writes, mode, apic_id, entry_point) ==
    LET a == init_id(writes, mode, apic_id)
    IN  IF a.res # "Ok" THEN a
        ELSE LET b == sipi_id(a.icr, mode, apic_id, entry_point)
             IN  IF b.res # "Ok" THEN b
                 ELSE sipi_id(b.icr, mode, apic_id, entry_point)

\* the APIC ids a caller names: 0x12345 needs the x2APIC, 16 is the first id
\* the xAPIC cannot address
ApicIds == {0, 4, 15, 16, 74565}

\* the vectors a command carries
Vectors == {0, 8, 255}

\* the commands a caller builds with the setters
Commands ==
    {[InterruptCommand_default EXCEPT !.delivery_mode = dm, !.level = lv,
                                      !.destination_shorthand = sh,
                                      !.vector = v, !.apic_id = a] :
        dm \in DeliveryModes, lv \in {"DeAssert", "Assert"},
        sh \in DestinationShorthands, v \in {None} \cup Vectors,
        a \in {None, 4, 16}}

\* entry points: 0x8000 and 0xff000 are of the form 0x000VV000, 0x8001 and
\* 0x108000 are not
EntryPoints == {0, 32768, 1044480, 32769, 1081344}

----------------------------------------------------------------------------
(* Part 3b: the local APIC's registers, the IA32_APIC_BASE MSR, the two     *)
(* legacy PICs and the interrupt flag, as Apic::new, Apic::enable_timer and *)
(* Apic::reset drive them.                                                  *)
(*                                                                          *)
(* A value of IA32_APIC_BASE (a u64) is the set of the positions of its     *)
(* bits that are 1: `|` is \cup and `&` is \cap.  A 32-bit register value   *)
(* and an 8-bit PIC mask are numbers.  The eight words of the in-service    *)
(* and of the interrupt-request registers are the set of the vectors whose  *)
(* bit is 1: the words are all zero exactly when the set is empty.          *)

\* NUM_WRITABLE_REGS
NUM_WRITABLE_REGS == 11

\* writable_registers()
writable_registers ==
    <<"TaskPriority", "SpuriousInterruptVector", "LvtCorrectedMachineCheckInterrupt",
      "LvtTimer", "LvtThermalSensor", "LvtPerformanceMonitoring", "LvtLint0",
      "LvtLint1", "LvtError", "TimerInitialCount", "TimerDivideConfiguration">>

WritableRegisters == {writable_registers[i] : i \in 1..NUM_WRITABLE_REGS}

\* APIC_ENABLE = 1 << 11
APIC_ENABLE == {11}

\* APIC_EXTENDED = 1 << 10
APIC_EXTENDED == {10}

\* the BSP bit of IA32_APIC_BASE, 1 << 8
BSP_BIT == {8}

\* the mask 0xffff_f000
BaseMask == 12..31

\* TimerMode::Periodic as u32
TimerMode_Periodic == 1

\* TimerDivideConfiguration::DivideBy2 as u32
TimerDivideConfiguration_DivideBy2 == 0

\* the count enable_timer starts the timer with
TIMER_INITIAL_COUNT == 10000000

\* the attempts Apic::reset makes at draining the interrupts
EOI_ATTEMPTS == 100

\* one operation on the hardware: a register write (reg, val), a wrmsr of
\* IA32_APIC_BASE (bits), an out8 to a PIC mask port (reg, val), sti, cli, or a
\* line printed
HwOp(op, reg, val, bits) == [op |-> op, reg |-> reg, val |-> val, bits |-> bits]

\* self.write(reg, val)
Write(reg, val) == HwOp("write", reg, val, {})

\* cpu::wrmsr(Msr::ApicBase, bits)
WrmsrApicBase(bits) == HwOp("wrmsr", "ApicBase", 0, bits)

\* cpu::out8(port, val)
Out8(port, val) == HwOp("out8", port, val, {})

Sti == HwOp("sti", "", 0, {})

Cli == HwOp("cli", "", 0, {})

PrintFailed == HwOp("print", "FAILED TO EOI ALL INTERRUPTS", 0, {})

SetMax(S) == CHOOSE x \in S : \A y \in S : y <= x

SetMin(S) == CHOOSE x \in S : \A y \in S : x <= y

\* the hardware after one operation.  A write to EndOfInterrupt clears the
\* highest in-service bit and nothing else; every other write is stored
HwStep(hw, o) ==
    CASE o.op = "write" /\ o.reg = "EndOfInterrupt" ->
            IF hw.in_service = {} THEN hw
            ELSE [hw EXCEPT !.in_service = @ \ {SetMax(@)}]
      [] o.op = "write" /\ o.reg # "EndOfInterrupt" ->
            [hw EXCEPT !.regs[o.reg] = o.val]
      [] o.op = "wrmsr" -> [hw EXCEPT !.apic_base = o.bits]
      [] o.op = "out8" /\ o.reg = "PrimaryPicInterruptMask" ->
            [hw EXCEPT !.primary_pic_interrupt_mask = o.val]
      [] o.op = "out8" /\ o.reg = "SecondaryPicInterruptMask" ->
            [hw EXCEPT !.secondary_pic_interrupt_mask = o.val]
      [] o.op = "sti" -> [hw EXCEPT !.interrupts = TRUE]
      [] o.op = "cli" -> [hw EXCEPT !.interrupts = FALSE]
      [] OTHER -> hw

RECURSIVE HwRun(_, _)
\* the hardware after the operations ops, in order
HwRun(hw, ops) ==
    IF ops = << >> THEN hw ELSE HwRun(HwStep(hw, Head(ops)), Tail(ops))

\* Apic::disable_timer
disable_timer == <<Write("TimerInitialCount", 0)>>

\* Apic::set_timer_divide_config
set_timer_divide_config(config) == <<Write("TimerDivideConfiguration", config)>>

\* Apic::set_timer_periodic
set_timer_periodic(interrupt_index) ==
    <<Write("LvtTimer", BitOr(TimerMode_Periodic, interrupt_index))>>

\* Apic::set_initial_timer_count
set_initial_timer_count(count) == <<Write("TimerInitialCount", count)>>

\* Apic::enable_timer: the operations it performs, in order
enable_timer(interrupt_index) ==
    disable_timer \o set_timer_divide_config(TimerDivideConfiguration_DivideBy2)
        \o set_timer_periodic(interrupt_index)
        \o set_initial_timer_count(TIMER_INITIAL_COUNT)

\* Apic::enable_spurious_interrupt
enable_spurious_interrupt(vector) ==
    <<Write("SpuriousInterruptVector", BitOr(2^8, vector))>>

\* cpu::disable_pic_interrupts
disable_pic_interrupts ==
    <<Out8("PrimaryPicInterruptMask", 255), Out8("SecondaryPicInterruptMask", 255)>>

\* Apic::end_of_interrupt
end_of_interrupt == <<Write("EndOfInterrupt", 0)>>

\* Apic::save_state: registers[i] = Some((reg, self.read(reg)))
save_state(hw) ==
    [i \in 1..NUM_WRITABLE_REGS |->
        [reg |-> writable_registers[i], val |-> hw.regs[writable_registers[i]]]]

\* no Apic yet
NoApic ==
    [pc |-> "none", is_bsp |-> FALSE,
     original_state |-> [apic_base |-> {}, registers |-> << >>,
                         primary_pic_interrupt_mask |-> 0,
                         secondary_pic_interrupt_mask |-> 0],
     attempts |-> 0, eoi_success |-> FALSE,
     call |-> [op |-> "none", vector |-> 0],
     before |-> [apic_base |-> {}, primary_pic_interrupt_mask |-> 0,
                 secondary_pic_interrupt_mask |-> 0]]

\* Apic::new(base) on the hardware hw: [res, hw, apic, ops].  The masks of
\* the PICs are read after disable_pic_interrupts has written them
new(hw, base) ==
    IF ~(base = {} \/ SetMin(base) >= 12) \/ ~(base # {} /\ base \subseteq BaseMask)
       \/ ~hw.has_x2apic
    THEN [res |-> "Panic", hw |-> hw, apic |-> NoApic, ops |-> << >>]
    ELSE LET apic_base_msr == hw.apic_base
             is_bsp == (apic_base_msr \cap BSP_BIT) # {}
             new_base == base \cup APIC_ENABLE \cup (apic_base_msr \cap BSP_BIT)
                              \cup APIC_EXTENDED
             ops1 == <<WrmsrApicBase(new_base)>> \o disable_pic_interrupts
             hw1 == HwRun(hw, ops1)
             original_state ==
                 [apic_base |-> apic_base_msr \cup APIC_EXTENDED,
                  registers |-> save_state(hw1),
                  primary_pic_interrupt_mask |-> hw1.primary_pic_interrupt_mask,
                  secondary_pic_interrupt_mask |-> hw1.secondary_pic_interrupt_mask]
             ops2 == enable_spurious_interrupt(255) \o enable_timer(205)
         IN  [res |-> "Ok",
              hw |-> HwRun(hw1, ops2),
              apic |-> [NoApic EXCEPT !.pc = "ready", !.is_bsp = is_bsp,
                                      !.original_state = original_state,
                                      !.call = [op |-> "new", vector |-> 0],
                                      !.before = [apic_base |-> hw.apic_base,
                                          primary_pic_interrupt_mask |->
                                              hw.primary_pic_interrupt_mask,
                                          secondary_pic_interrupt_mask |->
                                              hw.secondary_pic_interrupt_mask]],
              ops |-> ops1 \o ops2]

\* Apic::reset up to its drain loop: the timer off, the saved registers, the
\* spurious-interrupt-vector register, IA32_APIC_BASE
reset_restore(a) ==
    disable_timer
        \o [i \in 1..NUM_WRITABLE_REGS |->
               Write(a.original_state.registers[i].reg,
                     a.original_state.registers[i].val)]
        \o <<Write("SpuriousInterruptVector", 0)>>
        \o <<WrmsrApicBase(a.original_state.apic_base)>>

\* the masks written before the interrupts are disabled
reset_finish_masks_first(a) ==
    <<Out8("PrimaryPicInterruptMask", a.original_state.primary_pic_interrupt_mask),
      Cli,
      Out8("SecondaryPicInterruptMask", a.original_state.secondary_pic_interrupt_mask)>>

\* Apic::reset after its drain loop: cli, then the two PIC masks
reset_finish(a) ==
    <<Cli,
      Out8("PrimaryPicInterruptMask", a.original_state.primary_pic_interrupt_mask),
      Out8("SecondaryPicInterruptMask", a.original_state.secondary_pic_interrupt_mask)>>

\* the physical address of the local APIC, 0xfee0_0000
APIC_BASE_ADDRESS == {21, 22, 23} \cup (25..31)

\* the values of IA32_APIC_BASE the firmware may leave: enabled, on the BSP or
\* not, the x2APIC mode on or off
ApicBaseValues ==
    {APIC_BASE_ADDRESS \cup APIC_ENABLE \cup BSP_BIT,
     APIC_BASE_ADDRESS \cup APIC_ENABLE \cup BSP_BIT \cup APIC_EXTENDED}

\* the arguments of Apic::new: a base, and three it rejects
BaseInputs ==
    {APIC_BASE_ADDRESS, {}, APIC_BASE_ADDRESS \cup {5}, APIC_BASE_ADDRESS \cup {32}}

\* the masks the firmware may leave in a PIC
PicMasks == {184, 255}

\* the interrupt vectors of the devices and of the timer
PendingVectors == {33, 205}

\* the vectors passed to enable_timer
TimerVectors == {32, 205, 254}

\* the registers at power up: the LVT entries masked, the spurious vector 0xff
PowerUpRegs ==
    [r \in WritableRegisters |->
        IF r \in {"LvtCorrectedMachineCheckInterrupt", "LvtTimer", "LvtThermalSensor",
                  "LvtPerformanceMonitoring", "LvtLint0", "LvtLint1", "LvtError"}
        THEN 2^16
        ELSE IF r = "SpuriousInterruptVector" THEN 255 ELSE 0]

\* the registers as a firmware that used the APIC leaves them
FirmwareRegs ==
    [PowerUpRegs EXCEPT !["SpuriousInterruptVector"] = 511, !["LvtLint0"] = 1792,
                        !["TaskPriority"] = 16]

\* the hardware before Apic::new
HwStart(has_x2apic, apic_base, m1, m2, regs) ==
    [has_x2apic |-> has_x2apic, apic_base |-> apic_base,
     primary_pic_interrupt_mask |-> m1, secondary_pic_interrupt_mask |-> m2,
     regs |-> regs, interrupts |-> FALSE, in_service |-> {}, interrupt_request |-> {}]

PowerUpHw ==
    HwStart(TRUE, APIC_BASE_ADDRESS \cup APIC_ENABLE \cup BSP_BIT, 184, 255, PowerUpRegs)

\* apic_last: the call, its arguments and its result
NoApicCall == [op |-> "none", cmd |-> InterruptCommand_default, mode |-> "X2Apic",
               apic_id |-> 0,
               entry_point |-> 0, res |-> "Ok", val |-> NoValue, pre |-> << >>]

\* Apic::new: the x2APIC is the one mode it returns with; no command sent yet
ApicReset ==
    /\ apic_mode = "X2Apic"
    /\ icr = << >>
    /\ apic_last = NoApicCall
    /\ \E r \in {new(PowerUpHw, APIC_BASE_ADDRESS)} :
          /\ lapic = r.hw
          /\ apic = r.apic
          /\ hw_log = r.ops

----------------------------------------------------------------------------
(* Part 5: shared/errchain                                                  *)
(*                                                                          *)
(* An ErrorChainResult is a record: [res |-> "Ok"], or res "Err" with the   *)
(* fields of the ErrorChain it carries.  chain is the whole array of        *)
(* MAX_CHAIN_LEN messages; slot i of the source is element i+1.             *)

MAX_CHAIN_LEN == 8

\* the first line number new_with_debug and extend_chain panic on
LINE_LIMIT == 1000000

\* Message { file, line, error }
Message(file, line, error) == [file |-> file, line |-> line, error |-> error]

\* Message::empty()
Message_empty == Message("", 0, "Empty")

\* the `match line` of new_with_debug and extend_chain: the number of digits,
\* 0 standing for the panic arm
line_len(line) ==
    CASE line <= 9      -> 1
      [] line <= 99     -> 2
      [] line <= 999    -> 3
      [] line <= 9999   -> 4
      [] line <= 99999  -> 5
      [] line < LINE_LIMIT -> 6
      [] OTHER          -> 0

\* ErrorChainResult::Ok(_)
ErrOk ==
    [res |-> "Ok", chain |-> [i \in 1..MAX_CHAIN_LEN |-> Message_empty], chain_len |-> 0,
     max_padding |-> 0]

\* ErrorChain::new_with_debug, wrapped in Err (err!, ensure!)
new_with_debug(file, line, error) ==
    IF line_len(line) = 0 THEN [ErrOk EXCEPT !.res = "Panic"]
    ELSE [res |-> "Err",
          chain |-> [i \in 1..MAX_CHAIN_LEN |->
                        IF i = 1 THEN Message(file, line, error) ELSE Message_empty],
          chain_len |-> 1,
          max_padding |-> Len(file) + line_len(line)]

\* ErrorChain::last: the index of the last message, 0 for None
ErrorChain_last(err) == err.chain_len

\* mutant of extend_chain: a full chain starts again at its first slot
extend_chain_wraps(err, file, line, error) ==
    LET at == IF err.chain_len = MAX_CHAIN_LEN THEN 1 ELSE err.chain_len + 1
    IN  IF line_len(line) = 0 THEN [err EXCEPT !.res = "Panic"]
        ELSE [err EXCEPT !.chain[at] = Message(file, line, error),
                         !.chain_len = at,
                         !.max_padding = IF @ >= Len(file) + line_len(line) THEN @
                                         ELSE Len(file) + line_len(line)]

\* ErrorChain::extend_chain
extend_chain(err, file, line, error) ==
    IF err.chain_len = MAX_CHAIN_LEN THEN err
    ELSE IF line_len(line) = 0 THEN [err EXCEPT !.res = "Panic"]
    ELSE [err EXCEPT !.chain[err.chain_len + 1] = Message(file, line, error),
                     !.chain_len = @ + 1,
                     !.max_padding = IF @ >= Len(file) + line_len(line) THEN @
                                     ELSE Len(file) + line_len(line)]

\* <ErrorChainResult as Try>::from_error, called by `?` at curr_file:curr_line
from_error(err, curr_file, curr_line) ==
    IF /\ ErrorChain_last(err) # 0
       /\ err.chain[ErrorChain_last(err)].line = curr_line
       /\ err.chain[ErrorChain_last(err)].file = curr_file
    THEN err
    ELSE extend_chain(err, curr_file, curr_line, "Continue")

\* <ErrorChainResult as Context>::context, called at file:line
context(result, file, line, error) ==
    IF result.res = "Ok" THEN result
    ELSE extend_chain(result, file, line, error)

\* the places of the callers' source: two lines of one file, one of another
Sites == {<<"lib.rs", 9>>, <<"lib.rs", 10>>, <<"main.rs", 9>>}

\* the place of the ensure! that starts the chain
RaiseSites == {<<"lib.rs", 9>>}

\* chain_last: the propagation step just made, and the result it was made on
NoStep == [op |-> "none", file |-> "", line |-> 0, pre |-> ErrOk]

ErrReset == chain_result = ErrOk /\ chain_last = NoStep

----------------------------------------------------------------------------
(* Part 4: bootloader/main and kernel/main                                  *)
(*                                                                          *)
(* An address of an element of core_args or alive_cores is the element's    *)
(* index.                                                                   *)

Cores == 0..(NUM_CPUS - 1)

\* the application processors try_main launches: every core_id but 0
APs == 1..(NUM_CPUS - 1)

\* CoreArg::new()
CoreArg_new ==
    [core |-> None, memory |-> RangeSet_new, alive_address |-> None, start_time |-> 0]

\* CoreArg::reset
CoreArg_reset(arg) == [arg EXCEPT !.core = None, !.memory = RangeSet_new]

\* CoreArg::set_core
set_core(arg, core) == [arg EXCEPT !.core = core]

\* CoreArg::set_alive_address
set_alive_address(arg, addr) == [arg EXCEPT !.alive_address = addr]

\* CoreArg::insert_memory: [res, arg].  sub! and add! are checked and return
\* their error; the Result of self.memory.insert is dropped, only a panic of
\* insert is not
insert_memory(arg, memory_start, memory_size, oc) ==
    IF memory_size < 1 THEN [res |-> "SubUnderflow", arg |-> arg]
    ELSE IF memory_start + (memory_size - 1) > U64_MAX
    THEN [res |-> "AddOverflow", arg |-> arg]
    ELSE LET i == insert(arg.memory,
                         InclusiveRange(memory_start, memory_start + (memory_size - 1)),
                         oc)
         IN  [res |-> IF i.res = "Panic" THEN "Panic" ELSE "Ok",
              arg |-> [arg EXCEPT !.memory = i.rs]]

\* the local variable core_arg after the body of the launch loop has prepared
\* it: `let mut core_arg = core_args[core_id]` copies the element (CoreArg is
\* Copy), and the setters act on the copy
PreparedCoreArg(args, core_id, memory_start, oc) ==
    LET core_arg == args[core_id]
    IN  insert_memory(set_alive_address(set_core(CoreArg_reset(core_arg), core_id),
                                        core_id),
                      memory_start, ARENA_SIZE, oc).arg

\* kernel_main's position on a core that was not started.  trace lists the
\* writes the core has made to memory it shares with the BSP, and the return of
\* try_main, in order
ApOff == [pc |-> "off", arg |-> None, core_id |-> None, alive_address |-> None,
          res |-> "Ok", trace |-> << >>]

\* rounds of the outer loop of the kernel's try_main
TRY_MAIN_ROUNDS == 10

\* mutant of try_main: the work of the core fails
try_main_fails(core_id, oc) == "Err"

\* the kernel's try_main(core_id, arg): "Ok" | "Panic".  `sum += core_id` is
\* unchecked: with overflow checks it panics once the sum passes usize::MAX,
\* without it wraps; the function has no path that returns Err
try_main(core_id, oc) ==
    IF oc /\ TRY_MAIN_ROUNDS * core_id > USIZE_MAX THEN "Panic" ELSE "Ok"

\* mutant of AliveTarget: the flag of the core's id is written
AliveTargetByCore(a) == a.core_id

\* the pointer kernel_main writes the alive flag through: arg.alive_address
AliveTarget(a) == a.alive_address

\* one step of kernel_main(arg) on a started core: [ap, core_args, alive_cores].
\* entry: the two assert!, the two unwrap, the first stamp of start_time;
\* set_alive: alive_address.write(true); work: try_main, which stamps
\* start_time again; clear_alive: alive_address.write(false), then the panic
\* on an Err of try_main, or the return
kernel_main_step(a, args, alive, oc) ==
    CASE a.pc = "entry" ->
            IF args[a.arg].core = None \/ args[a.arg].alive_address = None
            THEN [ap |-> [a EXCEPT !.pc = "panicked"], core_args |-> args,
                  alive_cores |-> alive]
            ELSE [ap |-> [a EXCEPT !.pc = "set_alive", !.core_id = args[a.arg].core,
                                   !.alive_address = args[a.arg].alive_address,
                                   !.trace = Append(@, [kind |-> "start_time",
                                                        addr |-> a.arg, val |-> TRUE])],
                  core_args |-> [args EXCEPT ![a.arg].start_time = 1],
                  alive_cores |-> alive]
      [] a.pc = "set_alive" ->
            [ap |-> [a EXCEPT !.pc = "work",
                              !.trace = Append(@, [kind |-> "alive",
                                                   addr |-> AliveTarget(a),
                                                   val |-> TRUE])],
             core_args |-> args,
             alive_cores |-> [alive EXCEPT ![AliveTarget(a)] = TRUE]]
      [] a.pc = "work" ->
            LET res == try_main(a.core_id, oc)
            IN  IF res = "Panic"
                THEN [ap |-> [a EXCEPT !.pc = "panicked"], core_args |-> args,
                      alive_cores |-> alive]
                ELSE [ap |-> [a EXCEPT !.pc = "clear_alive", !.res = res,
                                       !.trace = @ \o
                                          <<[kind |-> "start_time", addr |-> a.arg,
                                             val |-> TRUE],
                                            [kind |-> "try_main_returned",
                                             addr |-> a.arg, val |-> TRUE]>>],
                      core_args |-> [args EXCEPT ![a.arg].start_time = 1],
                      alive_cores |-> alive]
      [] a.pc = "clear_alive" ->
            [ap |-> [a EXCEPT !.pc = IF a.res = "Ok" THEN "returned" ELSE "panicked",
                              !.trace = Append(@, [kind |-> "alive",
                                                   addr |-> AliveTarget(a),
                                                   val |-> FALSE])],
             core_args |-> args,
             alive_cores |-> [alive EXCEPT ![AliveTarget(a)] = FALSE]]

\* try_main before the kernel is downloaded, on a machine of `total`
\* processors whose firmware memory map is `memory_map`
BootStart(total, memory_map) ==
    /\ cpus = total
    /\ avail = memory_map
    /\ bsp = [pc |-> "download", core_id |-> 0, all_cores_finished |-> FALSE,
              scan |-> 0, kernel_buffer_addr |-> None,
              original_available_memory |-> memory_map, frames |-> {}]
    /\ core_args = [c \in Cores |-> CoreArg_new]
    /\ alive_cores = [c \in Cores |-> FALSE]
    /\ ap = [c \in APs |-> ApOff]
    /\ startup_log = << >>

\* the boot while the RangeSet, the page table or the APIC is looked at alone
BootReset == BootStart(1, RangeSet_new)

\* the memory maps the firmware reports: one or two ranges of free pages
MemoryMaps ==
    {push(RangeSet_new, InclusiveRange(0, e)) : e \in 1..(U64_MAX - 1)}
    \cup {push(push(RangeSet_new, InclusiveRange(0, 1)), InclusiveRange(3, U64_MAX - 1)),
          push(push(RangeSet_new, InclusiveRange(0, 2)), InclusiveRange(4, U64_MAX - 1))}

----------------------------------------------------------------------------
(* The RangeSet as a state machine *)

ValidRanges == {InclusiveRange(s, e) : s \in Addr, e \in Addr} \ 
                   {r \in [start : Addr, end : Addr] : r.start > r.end}

\* ranges with start = end + 1, the nearest invalid ones
InvalidRanges == {InclusiveRange(e + 1, e) : e \in {0, U64_MAX - 1}}

InputRanges == ValidRanges \cup InvalidRanges

Self == [all_ranges |-> all_ranges, length |-> length]

NoRange == InclusiveRange(0, 0)

\* last: the call (op, range, size, align), its result (res, addr) and the
\* RangeSet before it (pre).  For the two-call sequences of the algebraic laws:
\* range2 is the second argument, results the results in call order, other the
\* copy of the RangeSet the second order was run on.
NoCall == [op |-> "none", range |-> NoRange, size |-> 0, align |-> 0,
           res |-> "Ok", addr |-> 0, pre |-> RangeSet_new,
           range2 |-> NoRange, results |-> << >>, other |-> RangeSet_new,
           memory_start |-> 0]

\* a call on the RangeSet with outcome r, made by an idle caller
Call(op, range, sz, al, r) ==
    /\ all_ranges' = r.rs.all_ranges
    /\ length' = r.rs.length
    /\ panicked' = (r.res = "Panic")
    /\ pc' = "returned"
    /\ last' = [NoCall EXCEPT !.op = op, !.range = range, !.size = sz, !.align = al,
                               !.res = r.res, !.addr = r.addr, !.pre = Self]
    /\ UNCHANGED <<overflow_checks, ptvars, hwvars>>

\* RangeSet::new(), an empty page table, a PhysMem with its free pages
RsReset ==
    /\ all_ranges = RangeSet_new.all_ranges
    /\ length = RangeSet_new.length
    /\ overflow_checks \in BOOLEAN
    /\ panicked = FALSE
    /\ pc = "idle"
    /\ last = NoCall
    /\ mem = MemInit
    /\ free = FreeInit
    /\ maps = 0
    /\ pt_last = NoMap
    /\ ErrReset

RsInit == RsReset /\ ApicReset /\ BootReset

Insert ==
    /\ pc = "idle"
    /\ \E range \in InputRanges :
        Call("insert", range, 0, 0, insert(Self, range, overflow_checks))

Remove ==
    /\ pc = "idle"
    /\ \E range \in InputRanges :
        Call("remove", range, 0, 0, remove(Self, range, overflow_checks))

Allocate ==
    /\ pc = "idle"
    /\ \E sz \in 0..MaxSize, al \in 0..MaxAlign :
        Call("allocate", NoRange, sz, al, allocate(Self, sz, al, overflow_checks))

\* RangeSet::clear
Clear ==
    /\ pc = "idle"
    /\ Call("clear", NoRange, 0, 0, Result(RangeSet_new, "Ok"))

\* RangeSet::size; the value returned is kept in last.addr
Size ==
    /\ pc = "idle"
    /\ \E r \in {size(Self, overflow_checks)} :
          Call("size", NoRange, 0, 0, ResultAddr(Self, r.res, r.val))

\* the caller goes on to its next call, unless the call panicked
Continue ==
    /\ pc = "returned"
    /\ ~panicked
    /\ pc' = "idle"
    /\ last' = NoCall
    /\ pt_last' = NoMap
    /\ UNCHANGED <<all_ranges, length, overflow_checks, panicked, mem, free, maps, hwvars>>

RsNext == Insert \/ Remove \/ Allocate \/ Clear \/ Size \/ Continue

Spec == RsInit /\ [][RsNext]_vars

\* m.insert(range); m.remove(range) on the RangeSet, by one caller
InsertThenRemove ==
    /\ pc = "idle"
    /\ \E range \in ValidRanges :
       \E i \in {insert(Self, range, overflow_checks)} :
       \E r \in {IF i.res = "Panic" THEN i ELSE remove(i.rs, range, overflow_checks)} :
            /\ all_ranges' = r.rs.all_ranges
            /\ length' = r.rs.length
            /\ panicked' = (r.res = "Panic")
            /\ pc' = "returned"
            /\ last' = [NoCall EXCEPT !.op = "insert;remove", !.range = range,
                                      !.res = r.res, !.pre = Self,
                                      !.results = IF i.res = "Panic" THEN <<i.res>>
                                                  ELSE <<i.res, r.res>>]
            /\ UNCHANGED <<overflow_checks, ptvars, hwvars>>

\* m.insert(a); m.insert(b), stopping at a panic: [rs, results]
InsertTwo(rs, a, b, oc) ==
    LET i == insert(rs, a, oc)
    IN  IF i.res = "Panic" THEN [rs |-> i.rs, results |-> <<"Panic">>]
        ELSE LET k == insert(i.rs, b, oc)
             IN  [rs |-> k.rs, results |-> <<i.res, k.res>>]

\* a comes before b in the order (start, end): each unordered pair once
Before(a, b) == a.start < b.start \/ (a.start = b.start /\ a.end <= b.end)

\* let mut copy = m (RangeSet is Copy); m.insert(a); m.insert(b);
\* copy.insert(b); copy.insert(a)
InsertBothOrders ==
    /\ pc = "idle"
    /\ \E a \in ValidRanges, b \in ValidRanges :
       /\ Before(a, b)
       /\ \E ab \in {InsertTwo(Self, a, b, overflow_checks)} :
          \E ba \in {IF "Panic" \in {ab.results[k] : k \in 1..Len(ab.results)}
                     THEN [rs |-> Self, results |-> << >>]
                     ELSE InsertTwo(Self, b, a, overflow_checks)} :
            /\ all_ranges' = ab.rs.all_ranges
            /\ length' = ab.rs.length
            /\ panicked' = ("Panic" \in {(ab.results \o ba.results)[k] :
                                            k \in 1..Len(ab.results \o ba.results)})
            /\ pc' = "returned"
            /\ last' = [NoCall EXCEPT !.op = "insert;insert", !.range = a, !.range2 = b,
                                      !.pre = Self,
                                      !.results = ab.results \o ba.results,
                                      !.other = ba.rs]
            /\ UNCHANGED <<overflow_checks, ptvars, hwvars>>

\* the blocks [addr, size] the successful allocate calls made since the last
\* other call have returned
Blocks ==
    IF last.op = "allocate;allocate" THEN last.results
    ELSE IF last.op = "allocate" /\ last.res = "Ok"
    THEN <<[addr |-> last.addr, size |-> last.size]>>
    ELSE << >>

\* the blocks that are followed through successive allocate calls
MaxAllocs == 2

\* one more m.allocate(size, align), with no other call since the last allocate
AllocateAgain ==
    /\ pc = "returned"
    /\ ~panicked
    /\ last.op \in {"allocate", "allocate;allocate"}
    /\ Len(Blocks) < MaxAllocs
    /\ \E sz \in 0..MaxSize, al \in 0..MaxAlign :
       \E r \in {allocate(Self, sz, al, overflow_checks)} :
            /\ all_ranges' = r.rs.all_ranges
            /\ length' = r.rs.length
            /\ panicked' = (r.res = "Panic")
            /\ pc' = "returned"
            /\ last' = [NoCall EXCEPT !.op = "allocate;allocate", !.size = sz,
                                      !.align = al, !.res = r.res, !.addr = r.addr,
                                      !.pre = Self,
                                      !.results =
                                          IF r.res = "Ok"
                                          THEN Append(Blocks, [addr |-> r.addr,
                                                               size |-> sz])
                                          ELSE Blocks]
            /\ UNCHANGED <<overflow_checks, ptvars, hwvars>>

AllocsNext == RsNext \/ AllocateAgain

SpecAllocs == RsInit /\ [][AllocsNext]_vars

LawsNext == RsNext \/ InsertThenRemove \/ InsertBothOrders

SpecLaws == RsInit /\ [][LawsNext]_vars

----------------------------------------------------------------------------
(* The page table as a state machine *)

\* page_table.map_raw_4k / map_raw_2m / _map_raw(.., Size512G, ..)
MapRaw ==
    /\ pc = "idle"
    /\ maps < MaxMaps
    /\ \E entry \in EntryInputs, virt_addr \in MapAddrs, entry_size \in PageSizes :
       \E r \in {map_raw(mem, free, entry, virt_addr, entry_size)} :
            /\ mem' = r.mem
            /\ free' = r.free
            /\ panicked' = (r.res = "Panic")
            /\ pc' = "returned"
            /\ pt_last' = [NoMap EXCEPT !.op = "map", !.entry = entry,
                                        !.virt_addr = virt_addr, !.size = entry_size,
                                        !.res = r.res, !.pre = mem, !.pre_free = free]
    /\ maps' = maps + 1
    /\ UNCHANGED <<all_ranges, length, overflow_checks, last, hwvars>>

\* page_table.update_perms / set_writable_executable
UpdatePerms ==
    /\ pc = "idle"
    /\ maps < MaxMaps
    /\ \E virt_addr \in MapAddrs, perms \in PermsInputs :
       \E r \in {update_perms(mem, virt_addr, perms)} :
            /\ mem' = r.mem
            /\ panicked' = (r.res = "Panic")
            /\ pc' = "returned"
            /\ pt_last' = [NoMap EXCEPT !.op = "update_perms", !.virt_addr = virt_addr,
                                        !.perms = perms, !.res = r.res, !.pre = mem,
                                        !.pre_free = free]
    /\ maps' = maps + 1
    /\ UNCHANGED <<all_ranges, length, overflow_checks, last, free, hwvars>>

\* no arithmetic of the walk can overflow: the profile is left at release
PtInit == RsInit /\ ~overflow_checks

PtNext == MapRaw \/ UpdatePerms \/ Continue

SpecPT == PtInit /\ [][PtNext]_vars

\* calls made on one page table by the caller that builds its entries
BuildMaps == 3

\* the caller builds the leaf entry for a physical address with EntryBuilder,
\* as try_main does (.page_size(S) .present(true) .user_permitted(true)
\* .writable(true) .execute_disable(false)), and maps it with the map_raw_*
\* of that page size
BuildAndMap ==
    /\ pc = "idle"
    /\ maps < BuildMaps
    /\ \E address \in BuildAddrs, page_size \in PageSizes, virt_addr \in MapAddrs :
       \E b \in {EntryBuilder_finish(address, page_size, TRUE, FALSE)} :
       \E r \in {IF b.res = "Panic" THEN [res |-> "Panic", mem |-> mem, free |-> free]
                  ELSE map_raw(mem, free, b.entry, virt_addr, page_size)} :
            /\ mem' = r.mem
            /\ free' = r.free
            /\ panicked' = (r.res = "Panic")
            /\ pc' = "returned"
            /\ pt_last' = [NoMap EXCEPT !.op = "build;map", !.entry = b.entry,
                                        !.virt_addr = virt_addr, !.size = page_size,
                                        !.res = r.res, !.pre = mem, !.pre_free = free,
                                        !.phys = address]
    /\ maps' = maps + 1
    /\ UNCHANGED <<all_ranges, length, overflow_checks, last, hwvars>>

BuildNext == BuildAndMap \/ Continue

SpecPTBuild == PtInit /\ [][BuildNext]_vars

----------------------------------------------------------------------------
(* An ErrorChainResult on its way up the call stack                         *)

\* the step made on the result, with the state before it
ErrStep(op, file, line, r) ==
    /\ chain_result' = (IF r.res = "Panic" THEN chain_result ELSE r)
    /\ panicked' = (r.res = "Panic")
    /\ chain_last' = [op |-> op, file |-> file, line |-> line, pre |-> chain_result]
    /\ UNCHANGED <<all_ranges, length, overflow_checks, pc, last, ptvars, apicvars,
                   lapicvars, bootvars>>

\* err!(error) / ensure!(check, error) at file:line: a function starts a chain
Raise ==
    /\ chain_result.res = "Ok"
    /\ \E site \in RaiseSites :
          ErrStep("err!", site[1], site[2], new_with_debug(site[1], site[2], "Error"))

\* `result?` at file:line on an Err: from_error, and the function returns it
Propagate ==
    /\ chain_result.res = "Err"
    /\ \E site \in Sites :
          ErrStep("?", site[1], site[2], from_error(chain_result, site[1], site[2]))

\* result.context(&msg) at file:line
AddContext ==
    \E site \in Sites :
        ErrStep("context", site[1], site[2],
                context(chain_result, site[1], site[2], "Context"))

ErrInit == RsReset /\ ~overflow_checks /\ ApicReset /\ BootReset

ErrNext == Raise \/ Propagate \/ AddContext

SpecErr == ErrInit /\ [][ErrNext]_vars

----------------------------------------------------------------------------
(* The APIC as a state machine *)

\* interrupt_command.raw(&mode), for a Mode of the caller's choice
Raw ==
    /\ pc = "idle"
    /\ \E cmd \in Commands, mode \in Modes :
       \E r \in {raw(cmd, mode)} :
            /\ panicked' = (r.res = "Panic")
            /\ pc' = "returned"
            /\ apic_last' = [NoApicCall EXCEPT !.op = "raw", !.cmd = cmd, !.mode = mode,
                                               !.res = r.res, !.val = r.val, !.pre = icr]
    /\ UNCHANGED <<all_ranges, length, overflow_checks, last, ptvars, apic_mode, icr,
                   bootvars, lapicvars, errvars>>

\* apic.inter_process_interrupt(interrupt)
InterProcessInterrupt ==
    /\ pc = "idle"
    /\ \E cmd \in Commands :
       \E r \in {inter_process_interrupt(icr, apic_mode, cmd)} :
            /\ icr' = r.icr
            /\ panicked' = (r.res = "Panic")
            /\ pc' = "returned"
            /\ apic_last' = [NoApicCall EXCEPT !.op = "inter_process_interrupt",
                                               !.cmd = cmd, !.res = r.res, !.pre = icr]
    /\ UNCHANGED <<all_ranges, length, overflow_checks, last, ptvars, apic_mode,
                   bootvars, lapicvars, errvars>>

\* apic.init_sipi_sipi_id(apic_id, entry_point)
InitSipiSipiId ==
    /\ pc = "idle"
    /\ \E apic_id \in ApicIds, entry_point \in EntryPoints :
       \E r \in {init_sipi_sipi_id(icr, apic_mode, apic_id, entry_point)} :
            /\ icr' = r.icr
            /\ panicked' = (r.res = "Panic")
            /\ pc' = "returned"
            /\ apic_last' = [NoApicCall EXCEPT !.op = "init_sipi_sipi_id",
                                               !.apic_id = apic_id,
                                               !.entry_point = entry_point,
                                               !.res = r.res, !.pre = icr]
    /\ UNCHANGED <<all_ranges, length, overflow_checks, last, ptvars, apic_mode,
                   bootvars, lapicvars, errvars>>

\* the caller goes on to its next APIC call, unless the call panicked
ApicContinue ==
    /\ pc = "returned"
    /\ ~panicked
    /\ pc' = "idle"
    /\ apic_last' = NoApicCall
    /\ UNCHANGED <<all_ranges, length, overflow_checks, panicked, last, ptvars,
                   apic_mode, icr, bootvars, lapicvars, errvars>>

ApicInit == RsReset /\ ~overflow_checks /\ ApicReset /\ BootReset

ApicNext == Raw \/ InterProcessInterrupt \/ InitSipiSipiId \/ ApicContinue

SpecApic == ApicInit /\ [][ApicNext]_vars

----------------------------------------------------------------------------
(* The Apic object on its hardware as a state machine: Apic::new, then      *)
(* enable_timer calls, then Apic::reset, whose drain loop runs while the    *)
(* devices raise interrupts and the processor takes them.                   *)

\* the drain operations (sti, EOI) of one reset that hw_log keeps
MaxDrainLog == 3

\* the variables the Apic object and its hardware leave alone
lapicrest == <<all_ranges, length, overflow_checks, pc, last, ptvars, apicvars, bootvars,
               errvars>>

\* the operations ops are performed and added to the log of the call
Perform(ops) ==
    /\ lapic' = HwRun(lapic, ops)
    /\ hw_log' = hw_log \o ops

\* Apic::new(base)
ApicNew ==
    /\ apic.pc = "none"
    /\ ~panicked
    /\ \E base \in BaseInputs :
       \E r \in {new(lapic, base)} :
            /\ lapic' = r.hw
            /\ apic' = r.apic
            /\ hw_log' = r.ops
            /\ panicked' = (r.res = "Panic")
    /\ UNCHANGED lapicrest

\* apic.enable_timer(interrupt_index)
ApicEnableTimer ==
    /\ apic.pc = "ready"
    /\ \E interrupt_index \in TimerVectors :
          /\ lapic' = HwRun(lapic, enable_timer(interrupt_index))
          /\ hw_log' = enable_timer(interrupt_index)
          /\ apic' = [apic EXCEPT !.call = [op |-> "enable_timer",
                                            vector |-> interrupt_index]]
    /\ UNCHANGED <<panicked, lapicrest>>

\* apic.reset(), up to its drain loop
ApicResetRestore ==
    /\ apic.pc = "ready"
    /\ lapic' = HwRun(lapic, reset_restore(apic))
    /\ hw_log' = reset_restore(apic)
    /\ apic' = [apic EXCEPT !.pc = "eoi_all", !.attempts = 0, !.eoi_success = FALSE,
                            !.call = [op |-> "reset", vector |-> 0]]
    /\ UNCHANGED <<panicked, lapicrest>>

\* the drain operations ops are performed; the log keeps the first MaxDrainLog
Drain(ops) ==
    /\ lapic' = HwRun(lapic, ops)
    /\ hw_log' = LET room == Len(reset_restore(apic)) + MaxDrainLog - Len(hw_log)
                 IN  IF room <= 0 THEN hw_log
                     ELSE IF room >= Len(ops) THEN hw_log \o ops
                     ELSE hw_log \o SubSeq(ops, 1, room)

\* one turn of the loop 'try_again of Apic::eoi_all: sti, then an EOI and
\* another turn if a word of the in-service or of the interrupt-request
\* registers is not zero, else the return to Apic::reset
ApicEoiAll ==
    /\ apic.pc = "eoi_all"
    /\ IF lapic.in_service # {} \/ lapic.interrupt_request # {}
       THEN /\ Drain(<<Sti>> \o end_of_interrupt)
            /\ UNCHANGED apic
       ELSE /\ Drain(<<Sti>>)
            /\ apic' = [apic EXCEPT !.pc = "check"]
    /\ UNCHANGED <<panicked, lapicrest>>

\* Apic::reset after eoi_all has returned: the test of the loop `for _ in 0..100`
ApicResetCheck ==
    /\ apic.pc = "check"
    /\ IF lapic.in_service = {} /\ lapic.interrupt_request = {}
       THEN apic' = [apic EXCEPT !.pc = "finish", !.eoi_success = TRUE]
       ELSE apic' = [apic EXCEPT !.attempts = @ + 1,
                                 !.pc = IF apic.attempts + 1 = EOI_ATTEMPTS
                                        THEN "finish" ELSE "eoi_all"]
    /\ UNCHANGED <<lapic, hw_log, panicked, lapicrest>>

\* Apic::reset after its loop: the warning, cli, the two PIC masks
ApicResetFinish ==
    /\ apic.pc = "finish"
    /\ Perform((IF apic.eoi_success THEN << >> ELSE [i \in 1..10 |-> PrintFailed])
                   \o reset_finish(apic))
    /\ apic' = [apic EXCEPT !.pc = "done"]
    /\ UNCHANGED <<panicked, lapicrest>>

\* a device or the timer raises an interrupt: its bit of the interrupt-request
\* registers is set
InterruptRaised ==
    /\ apic.pc \in {"ready", "eoi_all", "check"}
    /\ \E v \in PendingVectors \ lapic.interrupt_request :
          lapic' = [lapic EXCEPT !.interrupt_request = @ \cup {v}]
    /\ UNCHANGED <<apic, hw_log, panicked, lapicrest>>

\* the processor takes a requested interrupt of a higher priority than the
\* ones in service: its bit moves to the in-service registers
InterruptDelivered ==
    /\ lapic.interrupts
    /\ \E v \in lapic.interrupt_request :
          /\ \A w \in lapic.in_service : w < v
          /\ lapic' = [lapic EXCEPT !.interrupt_request = @ \ {v},
                                    !.in_service = @ \cup {v}]
    /\ UNCHANGED <<apic, hw_log, panicked, lapicrest>>

\* the hardware as the firmware leaves it; no Apic yet
LapicInit ==
    /\ RsReset /\ ~overflow_checks /\ BootReset
    /\ apic_mode = "X2Apic"
    /\ icr = << >>
    /\ apic_last = NoApicCall
    /\ \E has_x2apic \in BOOLEAN, apic_base \in ApicBaseValues, m1 \in PicMasks,
          m2 \in PicMasks, regs \in {PowerUpRegs, FirmwareRegs} :
          lapic = HwStart(has_x2apic, apic_base, m1, m2, regs)
    /\ apic = NoApic
    /\ hw_log = << >>

LapicNext ==
    \/ ApicNew \/ ApicEnableTimer \/ ApicResetRestore \/ ApicEoiAll
    \/ ApicResetCheck \/ ApicResetFinish \/ InterruptRaised \/ InterruptDelivered

SpecLapic == LapicInit /\ [][LapicNext]_vars

\* the processor keeps executing Apic::reset; nothing obliges a device to stop
\* raising interrupts, nor the processor to take one
SpecLapicFair ==
    SpecLapic /\ WF_vars(ApicEoiAll) /\ WF_vars(ApicResetCheck) /\ WF_vars(ApicResetFinish)

----------------------------------------------------------------------------
(* The boot as a state machine: the BSP in try_main, each AP in kernel_main *)

\* the variables the boot leaves alone
restvars == <<all_ranges, length, overflow_checks, panicked, pc, last, ptvars, apicvars,
              lapicvars, errvars>>

\* an Err returned with `?` ends try_main (efi_main panics on it); so does a panic
Fails(res) == res # "Ok"

\* the kernel buffer is allocated from available_memory, then
\* original_available_memory is copied from what is left
Download ==
    /\ bsp.pc = "download"
    /\ \E m \in {allocate(avail, KERNEL_BUFFER_SIZE, 1, overflow_checks)} :
          IF Fails(m.res)
          THEN /\ bsp' = [bsp EXCEPT !.pc = "failed"]
               /\ UNCHANGED avail
          ELSE /\ avail' = m.rs
               /\ bsp' = [bsp EXCEPT !.pc = "map", !.kernel_buffer_addr = m.addr,
                                     !.original_available_memory = m.rs]
    /\ UNCHANGED <<cpus, core_args, alive_cores, ap, startup_log, restvars>>

\* available_memory.alloc_page_zeroed(): the root of the new page table, then
\* each table that map_raw_4k finds missing while the kernel is mapped
AllocFrame ==
    /\ bsp.pc = "map"
    /\ Cardinality(bsp.frames) < MaxFrames
    /\ \E m \in {allocate(avail, 1, 1, overflow_checks)} :
          IF Fails(m.res)
          THEN /\ bsp' = [bsp EXCEPT !.pc = "failed"]
               /\ UNCHANGED avail
          ELSE /\ avail' = m.rs
               /\ bsp' = [bsp EXCEPT !.frames = @ \cup {m.addr}]
    /\ UNCHANGED <<cpus, core_args, alive_cores, ap, startup_log, restvars>>

\* the kernel is mapped: `available_memory = original_available_memory`, and
\* the launch loop starts
StartLaunch ==
    /\ bsp.pc = "map"
    /\ bsp.frames # {}
    /\ avail' = bsp.original_available_memory
    /\ bsp' = [bsp EXCEPT !.pc = "launch", !.core_id = 0]
    /\ UNCHANGED <<cpus, core_args, alive_cores, ap, startup_log, restvars>>

\* one iteration of `for core_id in 0..NUM_CPUS`.  Core 0 is skipped.  For the
\* others the local core_arg is prepared, the arena allocated (`?`: an Err ends
\* try_main), and StartupThisAP called with the address of core_args[core_id];
\* its Result is dropped.  The firmware starts the procedure on a processor
\* that exists, or refuses; with a wait event it does not wait for the AP
LaunchCore ==
    /\ bsp.pc = "launch"
    /\ bsp.core_id < NUM_CPUS
    /\ IF bsp.core_id = 0
       THEN /\ bsp' = [bsp EXCEPT !.core_id = @ + 1]
            /\ UNCHANGED <<avail, ap, startup_log>>
       ELSE \E m \in {allocate(avail, ARENA_SIZE, 1, overflow_checks)} :
            IF Fails(m.res)
            THEN /\ bsp' = [bsp EXCEPT !.pc = "failed"]
                 /\ UNCHANGED <<avail, ap, startup_log>>
            ELSE \E status \in (IF bsp.core_id < cpus THEN {"Success"} ELSE {})
                                     \cup {"Error"} :
                 /\ avail' = m.rs
                 /\ bsp' = [bsp EXCEPT !.core_id = @ + 1]
                 /\ ap' = IF status = "Success"
                          THEN [ap EXCEPT ![bsp.core_id] =
                                    [ApOff EXCEPT !.pc = "entry", !.arg = bsp.core_id]]
                          ELSE ap
                 /\ startup_log' = Append(startup_log,
                        [proc_num |-> bsp.core_id,
                         procedure_argument |-> bsp.core_id,
                         pointee |-> core_args[bsp.core_id],
                         core_arg |-> PreparedCoreArg(core_args, bsp.core_id, m.addr,
                                                      overflow_checks),
                         memory_start |-> m.addr,
                         status |-> status])
    /\ UNCHANGED <<cpus, core_args, alive_cores, restvars>>

\* the launch loop is over: `while !all_cores_finished` is entered and the
\* flag set for the first pass over alive_cores
EnterMonitor ==
    /\ bsp.pc = "launch"
    /\ bsp.core_id = NUM_CPUS
    /\ bsp' = [bsp EXCEPT !.pc = "scan", !.all_cores_finished = TRUE, !.scan = 0]
    /\ UNCHANGED <<cpus, avail, core_args, alive_cores, ap, startup_log, restvars>>

\* `for (core_id, is_alive) in alive_cores.iter().enumerate()`: one element read
ScanStep ==
    /\ bsp.pc = "scan"
    /\ bsp.scan < NUM_CPUS
    /\ bsp' = [bsp EXCEPT !.scan = @ + 1,
                          !.all_cores_finished = IF alive_cores[bsp.scan] THEN FALSE ELSE @]
    /\ UNCHANGED <<cpus, avail, core_args, alive_cores, ap, startup_log, restvars>>

\* mutant of EndPass: all_cores_finished is not set again at the head of the
\* next pass
EndPass_flag_not_reset ==
    /\ bsp.pc = "scan"
    /\ bsp.scan = NUM_CPUS
    /\ bsp' = IF bsp.all_cores_finished
              THEN [bsp EXCEPT !.pc = "exited"]
              ELSE [bsp EXCEPT !.scan = 0]
    /\ UNCHANGED <<cpus, avail, core_args, alive_cores, ap, startup_log, restvars>>

\* the prints and sleeps that end a pass, then the loop test: the BSP leaves
\* the loop if the pass saw no flag set, and starts the next pass otherwise
EndPass ==
    /\ bsp.pc = "scan"
    /\ bsp.scan = NUM_CPUS
    /\ bsp' = IF bsp.all_cores_finished
              THEN [bsp EXCEPT !.pc = "exited"]
              ELSE [bsp EXCEPT !.all_cores_finished = TRUE, !.scan = 0]
    /\ UNCHANGED <<cpus, avail, core_args, alive_cores, ap, startup_log, restvars>>

\* a started AP takes its next step in kernel_main
ApStep ==
    /\ \E i \in APs :
          /\ ap[i].pc \in {"entry", "set_alive", "work", "clear_alive"}
          /\ \E r \in {kernel_main_step(ap[i], core_args, alive_cores, overflow_checks)} :
                /\ ap' = [ap EXCEPT ![i] = r.ap]
                /\ core_args' = r.core_args
                /\ alive_cores' = r.alive_cores
    /\ UNCHANGED <<cpus, avail, bsp, startup_log, restvars>>

\* the machine has 1..NUM_CPUS processors (the assert! on cpu_count) and one of
\* the memory maps
BootInit ==
    /\ RsReset /\ ~overflow_checks /\ ApicReset
    /\ \E total \in 1..NUM_CPUS, memory_map \in MemoryMaps :
          BootStart(total, memory_map)

BootNext ==
    \/ Download \/ AllocFrame \/ StartLaunch \/ LaunchCore
    \/ EnterMonitor \/ ScanStep \/ EndPass \/ ApStep

SpecBoot == BootInit /\ [][BootNext]_vars

----------------------------------------------------------------------------
(* kernel_main on the cores, for any CoreArg it may be handed *)

\* the CoreArg values at the address handed to kernel_main on core c: the id
\* unset, 0 or c; the alive address unset or slot c of alive_cores
CoreArgInputs(c) ==
    {[CoreArg_new EXCEPT !.core = core, !.alive_address = alive_address] :
        core \in {None, 0, c}, alive_address \in {None, c}}

\* every AP is at the entry of kernel_main; the BSP is at its first pass over
\* alive_cores
KernelInit ==
    /\ RsReset /\ ApicReset
    /\ cpus = NUM_CPUS
    /\ avail = RangeSet_new
    /\ bsp = [pc |-> "scan", core_id |-> NUM_CPUS, all_cores_finished |-> TRUE,
              scan |-> 0, kernel_buffer_addr |-> None,
              original_available_memory |-> RangeSet_new, frames |-> {}]
    /\ core_args \in [Cores -> UNION {CoreArgInputs(c) : c \in Cores}]
    /\ core_args[0] = CoreArg_new
    /\ \A c \in APs : core_args[c] \in CoreArgInputs(c)
    /\ alive_cores = [c \in Cores |-> FALSE]
    /\ ap = [c \in APs |-> [ApOff EXCEPT !.pc = "entry", !.arg = c]]
    /\ startup_log = << >>

KernelNext == ApStep \/ ScanStep \/ EndPass

SpecKernel == KernelInit /\ [][KernelNext]_vars

\* every core is a processor of its own and keeps running: the BSP goes on
\* with its pass over alive_cores and with the loop test, and an AP that can
\* take a step of kernel_main takes one
SpecKernelFair ==
    SpecKernel /\ WF_vars(ScanStep) /\ WF_vars(EndPass) /\ WF_vars(ApStep)

----------------------------------------------------------------------------
(* One CoreArg as a state machine: all_ranges and length are its field memory *)

\* core_arg.insert_memory(memory_start, memory_size)
InsertMemory ==
    /\ pc = "idle"
    /\ \E memory_start \in Addr, memory_size \in Addr :
       \E r \in {insert_memory([CoreArg_new EXCEPT !.memory = Self],
                                memory_start, memory_size, overflow_checks)} :
            /\ all_ranges' = r.arg.memory.all_ranges
            /\ length' = r.arg.memory.length
            /\ panicked' = (r.res = "Panic")
            /\ pc' = "returned"
            /\ last' = [NoCall EXCEPT !.op = "insert_memory",
                                      !.memory_start = memory_start,
                                      !.size = memory_size,
                                      !.res = r.res, !.pre = Self]
    /\ UNCHANGED <<overflow_checks, ptvars, hwvars>>

\* core_arg.reset() clears the memory
CoreArgNext == InsertMemory \/ Clear \/ Continue

SpecCoreArg == RsInit /\ [][CoreArgNext]_vars

----------------------------------------------------------------------------
(* What a RangeSet value covers *)

\* the addresses of one range
RangeAddrs(r) == {a \in Addr : r.start <= a /\ a <= r.end}

\* the stored ranges, slot order ignored
Stored(rs) == {rs.all_ranges[i] : i \in 1..rs.length}

\* the addresses covered by the stored ranges
Covered(rs) == UNION {RangeAddrs(r) : r \in Stored(rs)}

\* x and y overlap or abut, over the integers
Touches(x, y) == x.start <= y.end + 1 /\ y.start <= x.end + 1

Returned(op) == pc = "returned" /\ last.op = op

ErrorValues == {"Full", "InvalidRange", "ZeroSizedAllocation", "UnalignedAllocation",
                "DeleteOutOfBounds", "AddOverflow"}

----------------------------------------------------------------------------
(* C1: after any sequence of insert, remove and allocate calls, every two   *)
(* distinct stored ranges x, y satisfy x.end + 1 < y.start or               *)
(* y.end + 1 < x.start: no two stored ranges overlap or abut.               *)
C1_NoOverlapOrAbut ==
    \A i \in 1..length, j \in 1..length :
        i # j => \/ all_ranges[i].end + 1 < all_ranges[j].start
                 \/ all_ranges[j].end + 1 < all_ranges[i].start

(* C2: whenever allocate(size, align) returns Ok(a): a is aligned, the      *)
(* block [a, a+size-1] was covered before the call and is not covered       *)
(* after it, and size() has decreased by exactly size.                      *)
C2_AllocateTakesBlock ==
    (Returned("allocate") /\ last.res = "Ok") =>
        LET block == {a \in Addr : last.addr <= a /\ a <= last.addr + last.size - 1}
            before == size(last.pre, overflow_checks)
            after  == size(Self, overflow_checks)
        IN  /\ last.addr % last.align = 0
            /\ block \subseteq Covered(last.pre)
            /\ block \cap Covered(Self) = {}
            /\ (before.res = "Ok" /\ after.res = "Ok") =>
                    after.val = before.val - last.size

\* no stored range can hold an aligned block of sz bytes
NothingFits(rs, sz, al) ==
    \A r \in Stored(rs) : r.start + Padding(r.start, al) + (sz - 1) > r.end

(* C3: allocate(size, align) with size > 0 and align a power of two, on a   *)
(* set in which no stored range can hold an aligned block, returns a        *)
(* failure value to its caller (it does not abort) and leaves the set       *)
(* unchanged.                                                               *)
C3_AllocateFailureIsReturned ==
    (/\ Returned("allocate")
     /\ last.size > 0 /\ IsPowerOfTwo(last.align)
     /\ NothingFits(last.pre, last.size, last.align)) =>
        /\ last.res \in ErrorValues
        /\ ~panicked
        /\ Self = last.pre

\* the smallest range that covers every range of the non-empty set rs
Hull(rs) ==
    InclusiveRange((CHOOSE x \in rs : \A y \in rs : x.start <= y.start).start,
                   (CHOOSE x \in rs : \A y \in rs : x.end >= y.end).end)

(* C6: after a successful insert(r) the covered addresses are exactly those *)
(* covered before united with r, and r together with every stored range    *)
(* that overlapped or abutted it is stored as one single range.             *)
C6_InsertMerges ==
    (Returned("insert") /\ last.res = "Ok") =>
        LET r == last.range
            touching == {x \in Stored(last.pre) : Touches(x, r)}
            merged == Hull(touching \cup {r})
        IN  /\ Covered(Self) = Covered(last.pre) \cup RangeAddrs(r)
            /\ Stored(Self) = (Stored(last.pre) \ touching) \cup {merged}
            /\ length = Cardinality(Stored(Self))

\* what is left of the stored range x when r is taken out of it
Pieces(x, r) ==
    {InclusiveRange(x.start, Min(x.end, r.start - 1)) : b \in {x.start < r.start} \ {FALSE}}
    \cup
    {InclusiveRange(Max(x.start, r.end + 1), x.end) : b \in {x.end > r.end} \ {FALSE}}

(* C7: after a successful remove(r) the covered addresses are exactly those *)
(* covered before minus r: ranges inside r are deleted, ranges clipped on   *)
(* one side are shrunk, a range holding r in its interior becomes two.      *)
C7_RemoveSubtracts ==
    (Returned("remove") /\ last.res = "Ok") =>
        LET r == last.range
        IN  /\ Covered(Self) = Covered(last.pre) \ RangeAddrs(r)
            /\ Stored(Self) = UNION {Pieces(x, r) : x \in Stored(last.pre)}
            /\ length = Cardinality(Stored(Self))

\* slot i of rs can hold an aligned block of sz bytes
Fits(rs, i, sz, al) ==
    LET r == rs.all_ranges[i]
    IN  r.start + Padding(r.start, al) + (sz - 1) <= r.end

\* the slot the selection rule names: smallest padding, then lowest slot
BestSlot(rs, sz, al) ==
    LET pad(i) == Padding(rs.all_ranges[i].start, al)
        cands == {i \in 1..rs.length : Fits(rs, i, sz, al)}
    IN  CHOOSE i \in cands :
            \A j \in cands : pad(i) < pad(j) \/ (pad(i) = pad(j) /\ i <= j)

\* slot i makes add! fail in the loop of allocate
SlotOverflows(rs, i, sz, al) ==
    LET r == rs.all_ranges[i]
    IN  r.start + Padding(r.start, al) + (sz - 1) > U64_MAX

C9_InsertErrors ==
    Returned("insert") =>
        LET r == last.range
            touching == {x \in Stored(last.pre) : Touches(x, r)}
        IN  /\ ~is_valid(r) => last.res = "InvalidRange"
            /\ last.res = "Full" =>
                  (last.pre.length = MAX_MEMORY_RANGES /\ touching = {})
            /\ last.res \in {"InvalidRange", "Full"} => Self = last.pre

(* C4: for every valid range r and every reachable state S, insert(r)       *)
(* followed by remove(r) leaves the stored set of ranges equal to S.        *)
C4_InsertRemoveRestores ==
    (Returned("insert;remove") /\ ~panicked) =>
        Stored(Self) = Stored(last.pre)

(* C5: for all pairs (a, b) of valid ranges and every reachable state,      *)
(* insert(a); insert(b) ends with the same stored set of ranges and the     *)
(* same results as insert(b); insert(a).  last.results holds the results of *)
(* insert(a), insert(b) on the set and of insert(b), insert(a) on the copy. *)
C5_InsertCommutes ==
    (Returned("insert;insert") /\ ~panicked) =>
        /\ Stored(Self) = Stored(last.other)
        /\ last.results[1] = last.results[4]
        /\ last.results[2] = last.results[3]

----------------------------------------------------------------------------
(* Claims about the page table *)

\* u lies in the page of size page_sz that holds v
SamePage(u, v, page_sz) == u \div SizeOf(page_sz) = v \div SizeOf(page_sz)

\* the map call in pt_last returned Ok for a 4 KiB or 2 MiB page at an address
\* that had no mapping before
MappedUnmapped ==
    /\ pc = "returned" /\ pt_last.op = "map" /\ pt_last.res = "Ok"
    /\ pt_last.size \in {"Size4K", "Size2M"}
    /\ translate(pt_last.pre, pt_last.virt_addr).res = "Ok"
    /\ translate(pt_last.pre, pt_last.virt_addr).phys_addr = None

\* translate(u) gives back the entry of the map call in pt_last
RoundTrip(u) ==
    LET t == translate(mem, u)
    IN  /\ t.res = "Ok"
        /\ t.phys_addr = pt_last.entry.address + (u % SizeOf(pt_last.size))
        /\ t.size = pt_last.size
        /\ t.perms.writable = pt_last.entry.writable
        /\ t.perms.executable = ~pt_last.entry.execute_disable

\* the supplied entry is a leaf of the size it is mapped with: present, and its
\* page-size bit set exactly for a 2 MiB page
LeafOf(entry, page_sz) == entry.present /\ (entry.page_size <=> page_sz = "Size2M")

(* C10, as stated: for a page table in which v has no mapping, after a     *)
(* successful map(entry, v, S) with S in {4 KiB, 2 MiB}, translate(u) for    *)
(* every u in the same S-sized page as v returns phys = entry.address +      *)
(* (u & (S-1)), size = S, and writable / executable equal to the entry's     *)
(* writable and NOT execute-disable flags.                                   *)
C10_MapTranslateAnyEntry ==
    MappedUnmapped =>
        \A u \in VirtAddrs :
            SamePage(u, pt_last.virt_addr, pt_last.size) => RoundTrip(u)

(* C10, amended: the round trip of C10 holds whenever the supplied entry has *)
(* its present bit set and its page-size bit set exactly when S is 2 MiB.    *)
C10_MapTranslate ==
    (MappedUnmapped /\ LeafOf(pt_last.entry, pt_last.size)) =>
        \A u \in VirtAddrs :
            SamePage(u, pt_last.virt_addr, pt_last.size) => RoundTrip(u)

\* a 2 MiB leaf was mapped, as the second map call, at an unaligned address
\* whose walk needed a new table
C10_Witness ==
    /\ MappedUnmapped /\ LeafOf(pt_last.entry, pt_last.size)
    /\ pt_last.size = "Size2M"
    /\ ~is_page_aligned(pt_last.virt_addr)
    /\ maps = 2
    /\ Len(free) < NumFreePages - 1
    /\ \E u \in VirtAddrs : u # pt_last.virt_addr /\ RoundTrip(u)

\* v translated to a physical address in the memory m
Mapped(m, v) == translate(m, v).res = "Ok" /\ translate(m, v).phys_addr # None

(* C11: map(entry, v, S) on a virtual address v that already translates to  *)
(* a physical address returns VirtAddrAlreadyMapped, writes no page-table   *)
(* entry and takes no page from the PhysMem.                                *)
C11_MapMappedIsRefused ==
    (pc = "returned" /\ pt_last.op = "map" /\ Mapped(pt_last.pre, pt_last.virt_addr)) =>
        /\ pt_last.res = "VirtAddrAlreadyMapped"
        /\ mem = pt_last.pre
        /\ free = pt_last.pre_free

\* a map call was refused at an address inside an existing 2 MiB page, with a
\* different leaf than the one already there
C11_Witness ==
    /\ pc = "returned" /\ pt_last.op = "map" /\ pt_last.res = "VirtAddrAlreadyMapped"
    /\ translate(pt_last.pre, pt_last.virt_addr).size = "Size2M"
    /\ pt_last.size = "Size4K"
    /\ pt_last.entry.present
    /\ translate(mem, pt_last.virt_addr).phys_addr
         # pt_last.entry.address + (pt_last.virt_addr % SizeOf("Size4K"))

\* the entry addresses translate records for v in the memory m
WalkEntries(m, v) ==
    {translate(m, v).entries[l] : l \in 1..LEVELS} \ {None}

(* C12: after update_perms(v, perms) on a mapped v: if perms.writable,      *)
(* every page-table entry on the walk of v has its writable bit set in the   *)
(* table; if perms.executable, every such entry has execute-disable cleared; *)
(* a following translate(v) reports the requested permissions; and no entry  *)
(* loses a permission bit it had before.                                     *)
C12_UpdatePermsElevates ==
    (pc = "returned" /\ pt_last.op = "update_perms" /\ pt_last.res = "Ok"
        /\ Mapped(pt_last.pre, pt_last.virt_addr)) =>
        LET v == pt_last.virt_addr
            t == translate(mem, v)
        IN  /\ pt_last.perms.writable =>
                  /\ \A a \in WalkEntries(pt_last.pre, v) : mem[a].writable
                  /\ t.perms.writable
            /\ pt_last.perms.executable =>
                  /\ \A a \in WalkEntries(pt_last.pre, v) : ~mem[a].execute_disable
                  /\ t.perms.executable
            /\ \A a \in PhysAddrs :
                  /\ pt_last.pre[a].writable => mem[a].writable
                  /\ ~pt_last.pre[a].execute_disable => ~mem[a].execute_disable

(* C13: for any page-table contents, translate(v) on a mapped v reports     *)
(* perms.writable equal to the AND of the writable bits of all entries read  *)
(* on the walk, perms.executable equal to the AND of NOT execute-disable of  *)
(* all those entries, and perms.readable true.                               *)
C13_PermsAreAndOfWalk ==
    \A v \in VirtAddrs :
        Mapped(mem, v) =>
            LET t == translate(mem, v)
            IN  /\ t.perms.writable = (\A a \in WalkEntries(mem, v) : mem[a].writable)
                /\ t.perms.executable =
                       (\A a \in WalkEntries(mem, v) : ~mem[a].execute_disable)
                /\ t.perms.readable

\* index of v into the table at depth d (0 = root): (v >> {39,30,21,12}) & 0x1ff
IndexAt(v, d) == (v \div (PAGE_WORDS * TABLE_ENTRIES^(LEVELS - 1 - d))) % TABLE_ENTRIES

RECURSIVE WalkSlotsFrom(_, _, _, _)
\* addresses of the slots at depths d..3 that the walk of v uses when the table
\* at depth d is table_address, following the address fields
WalkSlotsFrom(m, v, d, table_address) ==
    IF d = LEVELS THEN << >>
    ELSE LET slot == table_address + IndexAt(v, d)
         IN  <<slot>> \o WalkSlotsFrom(m, v, d + 1, m[slot].address)

\* w[d + 1] is the slot the walk of v uses at depth d, from the root
WalkSlots(m, v) == WalkSlotsFrom(m, v, 0, RootTable)

\* on the slots w, the walk passes through depths 0..d-1 (present, not a large
\* page) and finds the entry at depth d not present
AbsentAt(m, w, d) ==
    /\ \A e \in 1..d : m[w[e]].present /\ ~m[w[e]].page_size
    /\ ~m[w[d + 1]].present

(* C14: for every virtual address v with no mapping, translate(v) returns   *)
(* phys = None and size = None, entries[0] is the address of the root slot   *)
(* indexed by (v >> 39) & 0x1FF, entries[d] is set for every depth d up to   *)
(* and including the first non-present entry, and deeper entries are None.   *)
(* Stated on the page table between calls.                                   *)
C14_UnmappedTranslation ==
    pc = "idle" =>
        \A v \in VirtAddrs : \A w \in {WalkSlots(mem, v)} : \A d \in 0..(LEVELS - 1) :
            AbsentAt(mem, w, d) =>
                \A t \in {translate(mem, v)} :
                    /\ t.res = "Ok"
                    /\ t.phys_addr = None
                    /\ t.size = "None"
                    /\ t.entries[1] = RootTable + IndexAt(v, 0)
                    /\ \A e \in 0..(LEVELS - 1) :
                          t.entries[e + 1] = IF e <= d THEN w[e + 1] ELSE None

\* after a map call, some address is unmapped with its first absent entry at
\* depth 2, in a table two levels below the root table
C14_Witness ==
    /\ pc = "idle" /\ maps >= 1
    /\ \E v \in VirtAddrs :
          /\ AbsentAt(mem, WalkSlots(mem, v), 2)
          /\ translate(mem, v).entries[3] # None
          /\ translate(mem, v).entries[4] = None
          /\ WalkSlots(mem, v)[3] \div PAGE_WORDS # RootTable \div PAGE_WORDS

\* number of page-table pages the map call of pt_last has to allocate: one for
\* each depth of its walk below the root that has no table yet
PagesNeeded ==
    LET entries == translate(pt_last.pre, pt_last.virt_addr).entries
    IN  Cardinality({d \in 2..max_depth(pt_last.size) : entries[d] = None})

\* the last call was a map that got as far as allocating and asked PhysMem for
\* a page when no page was left
PhysMemExhausted ==
    /\ pc = "returned" /\ pt_last.op = "map"
    /\ is_page_aligned(pt_last.entry.address)
    /\ translate(pt_last.pre, pt_last.virt_addr).res = "Ok"
    /\ translate(pt_last.pre, pt_last.virt_addr).phys_addr = None
    /\ PagesNeeded > Len(pt_last.pre_free)

(* C15: when PhysMem cannot supply a page that map needs, map returns an    *)
(* error to its caller; the program does not panic or halt.                 *)
C15_MapReturnsAllocError ==
    PhysMemExhausted => ~panicked /\ pt_last.res \notin {"Ok", "Panic"}

----------------------------------------------------------------------------
(* Claims about the APIC *)

\* the command {delivery_mode = INIT, level = Assert, apic_id = a}, all other
\* fields default
InitCommand(a) ==
    [InterruptCommand_default EXCEPT !.delivery_mode = "Init", !.level = "Assert",
                                     !.apic_id = a]

(* C16: raw of the command {INIT, Assert, apic_id = a} returns                *)
(* (a << 56) | (1 << 14) | (0b101 << 8) in xAPIC mode (a <= 0xF) and          *)
(* (a << 32) | (1 << 14) | (0b101 << 8) in x2APIC mode.                       *)
C16_InitEncoding ==
    \A a \in ApicIds :
        (/\ pc = "returned" /\ apic_last.op = "raw"
         /\ apic_last.cmd = InitCommand(a)
         /\ (apic_last.mode = "Apic" => a <= 15))
        => /\ apic_last.res = "Ok"
           /\ apic_last.val = [hi |-> IF apic_last.mode = "Apic" THEN a * 2^24 ELSE a,
                               lo |-> 2^14 + 5 * 2^8]

\* (1) the command has a vector or its delivery mode is NMI or INIT
HasVectorOrNeedsNone(cmd) ==
    cmd.vector # None \/ cmd.delivery_mode \in {"NonMaskableInterrupt", "Init"}

\* (2) the command has no apic_id when its shorthand addresses all cores
NoIdWithAllShorthand(cmd) ==
    cmd.destination_shorthand \in {"AllIncludingSelf", "AllExcludingSelf"}
        => cmd.apic_id = None

(* C17: raw encodes, without panicking, every command that satisfies (1) and *)
(* (2), and rejects exactly the commands that violate (1) or (2).            *)
C17_RawAcceptsWellFormed ==
    (pc = "returned" /\ apic_last.op = "raw") =>
        ((apic_last.res = "Ok") <=>
            (HasVectorOrNeedsNone(apic_last.cmd) /\ NoIdWithAllShorthand(apic_last.cmd)))

\* the StartUp command init_sipi_sipi_id is to send for entry_point
StartUpCommand(a, entry_point) ==
    [InterruptCommand_default EXCEPT !.delivery_mode = "StartUp", !.level = "Assert",
                                     !.apic_id = a,
                                     !.vector = (entry_point \div 2^12) % 2^8]

\* the 64-bit value of a command addressed to a in the x2APIC
X2Value(cmd) == RawValue(cmd, cmd.apic_id)

(* C18: init_sipi_sipi_id(apic_id, entry_point) with                         *)
(* entry_point & 0xFFF00FFF == 0 writes exactly three commands to the ICR,   *)
(* INIT (Assert), StartUp with vector (entry_point >> 12) & 0xFF, the same   *)
(* StartUp again, and returns Ok.                                            *)
C18_InitSipiSipi ==
    (/\ pc = "returned" /\ apic_last.op = "init_sipi_sipi_id"
     /\ EntryPointValid(apic_last.entry_point))
    => /\ apic_last.res = "Ok"
       /\ Len(icr) = Len(apic_last.pre) + 3
       /\ SubSeq(icr, 1, Len(apic_last.pre)) = apic_last.pre
       /\ LET n == Len(apic_last.pre)
              s == StartUpCommand(apic_last.apic_id, apic_last.entry_point)
          IN  /\ icr[n + 1].val.lo = X2Value(InitCommand(apic_last.apic_id)).lo
              /\ icr[n + 1].val.hi = apic_last.apic_id
              /\ icr[n + 2].val = X2Value(s)
              /\ icr[n + 3].val = X2Value(s)

----------------------------------------------------------------------------
(* Claims about the boot *)

(* C19: at every call of StartupThisAP for core i, the CoreArg at the address *)
(* passed as the procedure argument has core = Some(i), alive_address = the   *)
(* address of slot i of alive_cores, and a memory RangeSet holding the arena  *)
(* allocated for core i.                                                      *)
C19_CoreArgIsPrepared ==
    \A k \in 1..Len(startup_log) :
        LET call == startup_log[k]
        IN  /\ call.pointee.core = call.proc_num
            /\ call.pointee.alive_address = call.proc_num
            /\ Stored(call.pointee.memory) =
                   {InclusiveRange(call.memory_start,
                                   call.memory_start + (ARENA_SIZE - 1))}

(* C20: the BSP leaves the monitor loop only after every AP that was started *)
(* has finished kernel_main.                                                 *)
C20_MonitorOutlastsAPs ==
    bsp.pc = "exited" => \A i \in APs : ap[i].pc \in {"off", "returned"}

----------------------------------------------------------------------------
(* Claims about remove at the ends of the address space *)

(* C30: removing [0,k] from a set holding [0,n] (k < n) leaves exactly       *)
(* [k+1,n]; removing [k, u64::MAX] (k > 0) from a set holding [0, u64::MAX]  *)
(* leaves exactly [0,k-1]; and no computation of remove or of the overlap    *)
(* test it calls wraps or overflows.                                         *)
C30_RemoveAtExtremes ==
    (Returned("remove") /\ last.pre.length = 1 /\ is_valid(last.range)) =>
        LET held == last.pre.all_ranges[1]
            r    == last.range
        IN  /\ (held.start = 0 /\ r.start = 0 /\ r.end < held.end)
                  => (last.res = "Ok"
                      /\ Stored(Self) = {InclusiveRange(r.end + 1, held.end)})
            /\ (held = InclusiveRange(0, U64_MAX) /\ r.start > 0 /\ r.end = U64_MAX)
                  => (last.res = "Ok"
                      /\ Stored(Self) = {InclusiveRange(0, r.start - 1)})
            /\ is_valid(held) => (~panicked /\ ~OverlapsOverflows(r, held))

\* the pages of the arena allocated at memory_start
ArenaPages(memory_start) == memory_start..(memory_start + (ARENA_SIZE - 1))

\* the pages of the kernel download buffer
KernelBufferPages ==
    IF bsp.kernel_buffer_addr = None THEN {}
    ELSE bsp.kernel_buffer_addr..(bsp.kernel_buffer_addr + (KERNEL_BUFFER_SIZE - 1))

(* C21: the arenas handed to the APs are pairwise disjoint, and each is       *)
(* disjoint from the kernel download buffer and from every page-table frame   *)
(* try_main allocated for the new page table and the kernel mappings.         *)
C21_ArenasAreDisjoint ==
    \A k \in 1..Len(startup_log) :
        LET arena == ArenaPages(startup_log[k].memory_start)
        IN  /\ \A j \in 1..Len(startup_log) :
                  j # k => arena \cap ArenaPages(startup_log[j].memory_start) = {}
            /\ arena \cap KernelBufferPages = {}
            /\ arena \cap bsp.frames = {}

(* C27: with N processors reported by the firmware, StartupThisAP is called   *)
(* exactly once for each index 1..N-1, never for 0 and never for an index     *)
(* >= N; and a call the firmware rejects ends the boot (StartupThisApFailed)  *)
(* instead of being ignored.                                                  *)
C27_StartupOncePerProcessor ==
    /\ \A k \in 1..Len(startup_log) :
          /\ startup_log[k].proc_num \in 1..(cpus - 1)
          /\ \A j \in 1..Len(startup_log) :
                startup_log[j].proc_num = startup_log[k].proc_num => j = k
          /\ (startup_log[k].status # "Success")
                => (k = Len(startup_log) /\ bsp.pc = "failed")
    /\ bsp.pc \in {"scan", "exited"}
          => \A i \in 1..(cpus - 1) :
                \E k \in 1..Len(startup_log) : startup_log[k].proc_num = i

----------------------------------------------------------------------------
(* Claims about CoreArg *)

(* C29: insert_memory(start, size) returns an error and leaves the core's    *)
(* RangeSet unchanged when size = 0 or start + size - 1 overflows; and it    *)
(* returns Ok only if [start, start+size-1] is covered by the core's         *)
(* RangeSet afterwards.                                                      *)
C29_InsertMemoryReports ==
    Returned("insert_memory") =>
        LET memory_end == last.memory_start + (last.size - 1)
        IN  /\ (last.size = 0 \/ memory_end > U64_MAX)
                  => (last.res \notin {"Ok", "Panic"} /\ Self = last.pre)
            /\ (last.res = "Ok")
                  => (last.memory_start..memory_end) \subseteq Covered(Self)

----------------------------------------------------------------------------
(* Claims about kernel_main *)

\* the positions in the trace of core i of the writes of val to an alive flag
AliveWrites(i, val) ==
    {k \in 1..Len(ap[i].trace) : ap[i].trace[k].kind = "alive" /\ ap[i].trace[k].val = val}

\* the positions in the trace of core i of the events of one kind
Events(i, kind) == {k \in 1..Len(ap[i].trace) : ap[i].trace[k].kind = kind}

(* C22: on each AP, kernel_main writes stats.start_time before it writes     *)
(* true to its alive flag, and writes false only after try_main returned;    *)
(* the flag is written true at most once and false at most once, in that     *)
(* order, and no alive flag other than the one named in the core's own       *)
(* CoreArg is written.                                                       *)
C22_AliveFlagProtocol ==
    \A i \in APs :
        /\ \A k \in AliveWrites(i, TRUE) : \E j \in Events(i, "start_time") : j < k
        /\ \A k \in AliveWrites(i, FALSE) :
              /\ \E j \in Events(i, "try_main_returned") : j < k
              /\ \E j \in AliveWrites(i, TRUE) : j < k
        /\ Cardinality(AliveWrites(i, TRUE)) <= 1
        /\ Cardinality(AliveWrites(i, FALSE)) <= 1
        /\ \A k \in Events(i, "alive") :
              ap[i].trace[k].addr = core_args[ap[i].arg].alive_address

\* an AP has run kernel_main to its return, with a core id that is not its
\* alive slot
C22_Witness ==
    \E i \in APs :
        /\ ap[i].pc = "returned"
        /\ AliveWrites(i, TRUE) # {} /\ AliveWrites(i, FALSE) # {}
        /\ ap[i].core_id # ap[i].alive_address

C28_EnableTimerWrites ==
    apic.call.op = "enable_timer" =>
        hw_log = <<Write("TimerInitialCount", 0),
                   Write("TimerDivideConfiguration", 0),
                   Write("LvtTimer", BitOr(2^17, apic.call.vector)),
                   Write("TimerInitialCount", 10000000)>>

\* the state the hardware was in before Apic::new is back
OriginalStateRestored ==
    /\ lapic.primary_pic_interrupt_mask = apic.before.primary_pic_interrupt_mask
    /\ lapic.secondary_pic_interrupt_mask = apic.before.secondary_pic_interrupt_mask
    /\ lapic.apic_base = apic.before.apic_base

\* C26: for any PIC masks m1, m2 and any IA32_APIC_BASE b before Apic::new,
\* after Apic::new followed by Apic::reset the masks are m1 and m2 and
\* IA32_APIC_BASE is b again
C26_ResetRestoresOriginal == apic.pc = "done" => OriginalStateRestored

\* C24: Apic::reset always terminates: once called it gets to the end, past
\* cli and the two PIC masks, whatever the in-service and interrupt-request
\* registers show
C24_ResetTerminates == (apic.pc = "eoi_all") ~> (apic.pc = "done")

\* the operations Apic::reset is to start with: the timer off, the 11 saved
\* registers with their saved values, the spurious-interrupt-vector register
\* at 0, the saved IA32_APIC_BASE
ResetHead ==
    <<Write("TimerInitialCount", 0)>>
        \o [i \in 1..11 |-> Write(writable_registers[i],
                                  apic.original_state.registers[i].val)]
        \o <<Write("SpuriousInterruptVector", 0),
             WrmsrApicBase(apic.original_state.apic_base)>>

\* the operations Apic::reset is to end with: cli, the primary PIC mask, the
\* secondary PIC mask
ResetTail ==
    <<Cli,
      Out8("PrimaryPicInterruptMask", apic.original_state.primary_pic_interrupt_mask),
      Out8("SecondaryPicInterruptMask", apic.original_state.secondary_pic_interrupt_mask)>>

\* C25: Apic::reset performs its steps in this order: the timer initial count
\* at 0; the 11 saved registers; the spurious-interrupt-vector register at 0;
\* the saved IA32_APIC_BASE; the EOI drain (sti and EOI writes, then the
\* warning if it failed); cli; the primary then the secondary PIC mask.  No PIC
\* mask is written before cli and no register is restored before the timer is
\* disabled
C25_ResetStepOrder ==
    apic.call.op = "reset" =>
        LET n == Len(ResetHead)
            m == Len(hw_log) - Len(ResetTail)
        IN  /\ Len(hw_log) >= n
            /\ SubSeq(hw_log, 1, n) = ResetHead
            /\ apic.pc # "done" =>
                  \A k \in (n + 1)..Len(hw_log) :
                      hw_log[k] \in {Sti, Write("EndOfInterrupt", 0)}
            /\ apic.pc = "done" =>
                  /\ m > n
                  /\ hw_log[n + 1] = Sti
                  /\ \A k \in (n + 1)..m :
                        hw_log[k] \in {Sti, Write("EndOfInterrupt", 0), PrintFailed}
                  /\ SubSeq(hw_log, m + 1, Len(hw_log)) = ResetTail

\* a reset that wrote an EOI in its drain has returned
C25_Witness ==
    /\ apic.call.op = "reset"
    /\ apic.pc = "done"
    /\ \E k \in 1..Len(hw_log) : hw_log[k] = Write("EndOfInterrupt", 0)

----------------------------------------------------------------------------
RECURSIVE LengthSum(_, _)
\* the sum over the integers of the lengths end - start + 1 of the first n
\* stored ranges
LengthSum(rs, n) ==
    IF n = 0 THEN 0
    ELSE LengthSum(rs, n - 1) + (rs.all_ranges[n].end - rs.all_ranges[n].start + 1)

\* C31: for every reachable RangeSet, size() returns either the exact sum of
\* the lengths of the stored ranges or an overflow failure: it never returns a
\* wrapped value (nor panics), and for a set holding [0, u64::MAX] it does not
\* return an Ok value
C31_SizeIsExactOrFails ==
    Returned("size") =>
        /\ last.res # "Panic"
        /\ last.res = "Ok" => last.addr = LengthSum(last.pre, last.pre.length)
        /\ InclusiveRange(0, U64_MAX) \in Stored(last.pre) => last.res # "Ok"

\* InclusiveRange::len
InclusiveRange_len(r) ==
    IF r.end = 0 /\ r.start = 0 THEN 0 ELSE r.end - r.start + 1

\* C32: every range stored in a RangeSet by any sequence of insert, remove and
\* allocate has start <= end and InclusiveRange::len() >= 1; the range {0,0},
\* for which len() returns 0, is never stored
C32_StoredRangesHaveLength ==
    \A r \in Stored(Self) : is_valid(r) /\ InclusiveRange_len(r) >= 1

\* C38: in every state reachable by insert, remove, allocate and clear from
\* RangeSet::new(), 0 <= length <= MAX_MEMORY_RANGES; no operation writes a
\* slot at an index >= MAX_MEMORY_RANGES (the live slots are the ones below
\* length, none beyond the array), and delete is never called with an index
\* >= length (no call ends in DeleteOutOfBounds)
C38_LengthWithinCapacity ==
    /\ 0 <= length /\ length <= MAX_MEMORY_RANGES
    /\ Len(all_ranges) = length
    /\ last.res # "DeleteOutOfBounds"

\* an insert and a remove have each been refused by a full RangeSet, whose
\* slots are all in use
C38_Witness ==
    /\ length = MAX_MEMORY_RANGES
    /\ pc = "returned" /\ last.op \in {"insert", "remove"} /\ last.res = "Full"
    /\ last.pre.length = MAX_MEMORY_RANGES

\* C36: when remove(r) returns Full, the stored ranges are exactly what they
\* were before the call: no range was deleted, shrunk or added before the error
\* was returned; the same holds for allocate when the remove it calls returns
\* Full
C36_FullLeavesSetUnchanged ==
    (pc = "returned" /\ last.op \in {"remove", "allocate"} /\ last.res = "Full")
        => Self = last.pre

\* an allocate has returned Full: the remove it called had to split a range
\* of a set whose slots were all in use
C36_Witness ==
    /\ pc = "returned" /\ last.op = "allocate" /\ last.res = "Full"
    /\ last.pre.length = MAX_MEMORY_RANGES

\* C39: across any sequence of successful allocate calls on one RangeSet with
\* no insert in between, the returned blocks [a_i, a_i + size_i - 1] are
\* pairwise disjoint
C39_AllocatedBlocksDisjoint ==
    last.op = "allocate;allocate" =>
        \A i \in 1..Len(last.results), j \in 1..Len(last.results) :
            i < j => \/ last.results[i].addr + last.results[i].size - 1
                            < last.results[j].addr
                     \/ last.results[j].addr + last.results[j].size - 1
                            < last.results[i].addr

PageOf(virt_addr, entry_size) ==
    {u \in VirtAddrs : u \div SizeOf(entry_size) = virt_addr \div SizeOf(entry_size)}

\* C35: a successful map(entry, v, S) does not change the result of
\* translate(u) for any virtual address u, outside the newly mapped page, that
\* translated to a physical address before the call, whatever the mix of page
\* sizes
C35_MapLeavesOthersAlone ==
    (pc = "returned" /\ pt_last.op \in {"map", "build;map"} /\ pt_last.res = "Ok") =>
        \A u \in VirtAddrs \ PageOf(pt_last.virt_addr, pt_last.size) :
            \A before \in {translate(pt_last.pre, u)} :
                (before.res = "Ok" /\ before.phys_addr # None) => translate(mem, u) = before


\* a 2 MiB page has been mapped over a region that held a 4 KiB mapping, while
\* an address outside the new page translated before the call
C35_Witness ==
    /\ pc = "returned" /\ pt_last.op = "build;map" /\ pt_last.res = "Ok"
    /\ pt_last.size = "Size2M"
    /\ \E w \in PageOf(pt_last.virt_addr, "Size2M") :
          /\ translate(pt_last.pre, w).phys_addr # None
          /\ translate(pt_last.pre, w).size = "Size4K"
    /\ \E u \in VirtAddrs \ PageOf(pt_last.virt_addr, "Size2M") :
          translate(pt_last.pre, u).phys_addr # None


\* the messages held by a chain, in order
Frames(result) == [i \in 1..result.chain_len |-> result.chain[i]]

\* C34: a chain holds between 1 and MAX_CHAIN_LEN messages; `?` appends one
\* message for its file and line unless the last message has that file and
\* line, and then the chain is unchanged; context appends one message; a chain
\* of MAX_CHAIN_LEN messages is returned as it is; the messages already held
\* keep their values and their places
C34_ChainGrowsByOneUpToEight ==
    /\ chain_result.res = "Err" =>
          (chain_result.chain_len >= 1 /\ chain_result.chain_len <= MAX_CHAIN_LEN)
    /\ ~panicked
    /\ (chain_last.op \in {"?", "context"} /\ chain_last.pre.res = "Err") =>
          \E pre \in {chain_last.pre} :
          \E same \in {/\ chain_last.op = "?"
                       /\ pre.chain[pre.chain_len].file = chain_last.file
                       /\ pre.chain[pre.chain_len].line = chain_last.line} :
             IF same \/ pre.chain_len = MAX_CHAIN_LEN
             THEN chain_result = pre
             ELSE Frames(chain_result) =
                     Append(Frames(pre),
                            Message(chain_last.file, chain_last.line,
                                    IF chain_last.op = "?" THEN "Continue" ELSE "Context"))

\* a context() was made on a chain of MAX_CHAIN_LEN messages whose root cause
\* is still the first message, and a `?` had found its place in the last one
C34_Witness ==
    /\ chain_last.op = "context"
    /\ chain_last.pre.res = "Err"
    /\ chain_last.pre.chain_len = MAX_CHAIN_LEN
    /\ chain_result.chain[1].error = "Error"
    /\ \E i \in 2..MAX_CHAIN_LEN :
          /\ chain_result.chain[i].error = "Continue"
          /\ chain_result.chain[i - 1].error = "Context"
          /\ chain_result.chain[i].file = chain_result.chain[i - 1].file
          /\ chain_result.chain[i].line # chain_result.chain[i - 1].line


\* every AP has returned from kernel_main
AllReturned == \A i \in APs : ap[i].pc = "returned"

\* C37: if every started AP eventually returns from kernel_main, the BSP, which
\* keeps running, eventually makes a pass over alive_cores that sees no flag
\* set and leaves the monitor loop
C37_MonitorLoopEnds == (<>[]AllReturned) => <>(bsp.pc = "exited")

\* the BSP has left the loop after every AP, each handed its own alive flag,
\* set the flag, cleared it and returned
C37_Witness ==
    /\ bsp.pc = "exited"
    /\ AllReturned
    /\ \A i \in APs : core_args[i].alive_address = i
    /\ \A i \in Cores : ~alive_cores[i]

==========================================================================
